---------------------------- MODULE Spec2Model ----------------------------
(***************************************************************************)
(* A model of mithro/actions-includes: the expansion of `includes`        *)
(* directives of a GitHub workflow into a flat workflow.                  *)
(*                                                                         *)
(*   - the condition algebra of expressions.py (AndF, simplify, var_eval) *)
(*   - build_inputs                                                        *)
(*   - the step work queue of expand_job_steps / expand_step_includes     *)
(*   - the job work queue of expand_workflow_jobs                          *)
(*                                                                         *)
(* Python values and expression objects are trees of records of one       *)
(* shape, [k, s, n, args]: k is the kind, s a string payload, n an        *)
(* integer payload, args the children.                                    *)
(***************************************************************************)
EXTENDS Integers, Sequences, FiniteSets, TLC

VARIABLES
    docs,        \* the include targets reachable from the job: name -> action document
    steps,       \* expand_job_steps: the work queue `steps`, of <<filepath, step>>
    new_steps,   \* expand_job_steps: the output list `new_steps`
    pc,          \* expand_job_steps: "loop", "done" (returned) or "error" (raised)
    err,         \* the exception raised, "" if none
    job0,        \* the job's step list as given to expand_job_steps
    last,        \* the last expand_step_includes call: its inputs and its result
    bi,          \* build_inputs: the call (target, with, current_filepath) and its outcome
    wf,          \* expand_workflow_jobs: the workflow documents and the top-level jobs
    jobs,        \* expand_workflow_jobs: the work queue `jobs`
    new_jobs,    \* expand_workflow_jobs: the list `new_jobs`
    jpc,         \* expand_workflow_jobs: "loop", "done" (returned) or "error" (raised)
    result,      \* expand_workflow_jobs: the returned job mapping, as the list of its items
    lastj,       \* the last pass that expanded a job include: the job and what it put in the queue
    call         \* a call of one function of expressions.py or files.py: its arguments and its outcome

vars == <<docs, steps, new_steps, pc, err, job0, last, bi, call, wf, jobs, new_jobs, jpc, result, lastj, call>>

stepVars == <<docs, steps, new_steps, pc, err, job0, last>>
jobVars == <<wf, jobs, new_jobs, jpc, result, lastj>>

-----------------------------------------------------------------------------
(* Python values and expressions.                                          *)

Node(k, s, n, args) == [k |-> k, s |-> s, n |-> n, args |-> args]

PyTrue == Node("bool", "", 1, <<>>)
PyFalse == Node("bool", "", 0, <<>>)
PyNone == Node("null", "", 0, <<>>)
PyStr(s) == Node("str", s, 0, <<>>)
PyInt(n) == Node("int", "", n, <<>>)
\* A dict: its items, in order, each an "item" node holding the key and the value.
PyItem(key, v) == Node("item", key, 0, <<v>>)
PyDict(items) == Node("dict", "", 0, items)
\* An exception raised while evaluating.
PyRaise(what) == Node("raise", what, 0, <<>>)

\* class Value(str, Var)
Value(name) == Node("value", name, 0, <<>>)
\* class Lookup(tuple, Var): the segments are strings or Vars
Lookup(segs) == Node("lookup", "", 0, segs)
\* an AndF object with o.args = nargs
AndObj(nargs) == Node("and", "", 0, nargs)

\* isinstance(v, Var)
IsVar(v) == v.k \in {"value", "lookup"}
\* an object of the Function class `name` with the operands args; n tells an
\* object handed in from outside (n > 0, its identity) from one built while
\* evaluating (n = 0), which is no other operand's object
FunctionObj(name, n, args) == Node(name, "", n, args)

\* INFIX_FUNCTIONS, NotF and NAMED_FUNCTIONS: the `name` of every Function class
FunctionNames ==
    {"and", "or", "eq", "neq", "not", "contains", "startsWith", "endsWith",
     "toJSON", "fromJSON", "hashFiles", "success", "always", "cancelled"}

\* isinstance(v, Function)
IsFunction(v) == v.k \in FunctionNames
\* isinstance(v, Expression)
IsExpression(v) == IsVar(v) \/ IsFunction(v)
\* isinstance(v, str): Value is a subclass of str
IsStr(v) == v.k \in {"str", "value"}
IsRaise(v) == v.k = "raise"

\* Python's a == b. bool is an int (True == 1, False == 0); a Value is a str and
\* compares as one; a Lookup is a tuple and compares elementwise; a Function
\* defines no __eq__, so two Function objects are equal only when they are the
\* same object.
RECURSIVE PyEq(_, _)
PyEq(a, b) ==
    CASE a.k \in {"bool", "int"} /\ b.k \in {"bool", "int"} -> a.n = b.n
      [] IsStr(a) /\ IsStr(b) -> a.s = b.s
      [] a.k = "null" /\ b.k = "null" -> TRUE
      [] a.k = "lookup" /\ b.k = "lookup" ->
            /\ Len(a.args) = Len(b.args)
            /\ \A i \in 1..Len(a.args) : PyEq(a.args[i], b.args[i])
      [] IsFunction(a) /\ IsFunction(b) -> a.n # 0 /\ a = b
      [] OTHER -> FALSE

\* a in l, for a list or tuple l
PyIn(a, l) == \E i \in 1..Len(l) : PyEq(a, l[i])

\* a in (False, None, '')
InFalseNoneEmpty(a) == PyIn(a, <<PyFalse, PyNone, PyStr("")>>)

\* a is True
IsTrue(a) == a = PyTrue

\* bool(v)
PyTruthy(v) ==
    CASE v.k \in {"bool", "int"} -> v.n # 0
      [] IsStr(v) -> v.s # ""
      [] v.k = "null" -> FALSE
      [] v.k \in {"dict", "list"} -> v.args # <<>>
      [] OTHER -> TRUE

PyBool(b) == IF b THEN PyTrue ELSE PyFalse

-----------------------------------------------------------------------------
(* Text. A Python string is a TLA+ string; where the code looks inside a    *)
(* string, the string is spelled, as the sequence of its characters. Words *)
(* holds the spelling of every string the model looks inside.              *)

RECURSIVE Join(_)
Join(cs) == IF cs = <<>> THEN "" ELSE Head(cs) \o Join(Tail(cs))

\* the strings that literals of the model stand for: the texts over `a` and
\* the quote of up to MaxChars characters and M'lady, and the texts of the
\* hexadecimal numbers of up to MaxDigits digits
MaxChars == 2
MaxDigits == 2

StringContents ==
    UNION { [1..n -> {"a", "'"}] : n \in 0..MaxChars } \cup {<<"M", "'", "l", "a", "d", "y">>}

HexTexts == { <<"0", "x">> \o run : run \in UNION { [1..n -> {"f", "7"}] : n \in 1..MaxDigits } }

BaseWords ==
    { <<>>,
      <<"a">>,
      <<"b">>,
      <<"x">>,
      <<"l", "o">>,
      <<"H", "o">>,
      <<"H", "e", "l", "l", "o", " ", "w", "o", "r", "l", "d">>,
      <<"h", "a", "s", "h">>,
      <<"n", "u", "l", "l">>,
      <<"t", "r", "u", "e">>,
      <<"f", "a", "l", "s", "e">>,
      <<"T", "r", "u", "e">>,
      <<"F", "a", "l", "s", "e">>,
      <<"N", "o", "n", "e">>,
      <<"a", "n", "d">>,
      <<"o", "r">>,
      <<"e", "q">>,
      <<"n", "e", "q">>,
      <<"n", "o", "t">>,
      <<"c", "o", "n", "t", "a", "i", "n", "s">>,
      <<"s", "t", "a", "r", "t", "s", "W", "i", "t", "h">>,
      <<"e", "n", "d", "s", "W", "i", "t", "h">>,
      <<"t", "o", "J", "S", "O", "N">>,
      <<"f", "r", "o", "m", "J", "S", "O", "N">>,
      <<"h", "a", "s", "h", "F", "i", "l", "e", "s">>,
      <<"s", "u", "c", "c", "e", "s", "s">>,
      <<"a", "l", "w", "a", "y", "s">>,
      <<"c", "a", "n", "c", "e", "l", "l", "e", "d">>,
      <<"&", "&">>,
      <<"|", "|">>,
      <<"=", "=">>,
      <<"!", "=">>,
      <<",">>,
      <<"!">>,
      <<"&">>,
      <<"|">>,
      <<"=">> }

Words == BaseWords \cup StringContents \cup HexTexts

\* the characters of the string s
Chars(s) == CHOOSE cs \in Words : Join(cs) = s

\* b in a, a.startswith(b) and a.endswith(b) on spelled strings
HasPrefix(a, b) == Len(b) <= Len(a) /\ SubSeq(a, 1, Len(b)) = b
HasSuffix(a, b) == Len(b) <= Len(a) /\ SubSeq(a, Len(a) - Len(b) + 1, Len(a)) = b
HasPart(a, b) == \E i \in 0..(Len(a) - Len(b)) : SubSeq(a, i + 1, i + Len(b)) = b

\* v.replace("'", "''")
RECURSIVE DoubleQuotes(_)
DoubleQuotes(cs) ==
    IF cs = <<>> THEN <<>>
    ELSE (IF Head(cs) = "'" THEN <<"'", "'">> ELSE <<Head(cs)>>) \o DoubleQuotes(Tail(cs))

\* str(n) for an int n
Digit(d) == <<"0", "1", "2", "3", "4", "5", "6", "7", "8", "9">>[d + 1]

RECURSIVE IntStr(_)
IntStr(n) ==
    IF n < 0 THEN <<"-">> \o IntStr(-n)
    ELSE IF n < 10 THEN <<Digit(n)>>
    ELSE IntStr(n \div 10) \o <<Digit(n % 10)>>

\* A float: its sign, its whole part and the digits after the point without
\* the zeros at their end. The floats of the model have few digits, and
\* str(v) writes such a float as these digits.
PyFloat(sign, whole, digits) == Node("float", sign, whole, digits)

FloatStr(v) == (IF v.s = "-" THEN <<"-">> ELSE <<>>) \o IntStr(v.n) \o <<".">> \o v.args

\* the `op` of an InfixFunction class
InfixOp(name) ==
    CASE name = "and" -> "&&" [] name = "or" -> "||" [] name = "eq" -> "==" [] OTHER -> "!="

IsInfix(v) == v.k \in {"and", "or", "eq", "neq"}

\* what to_literal gives where it raises ValueError: no text
NoLiteral == <<"ValueError">>

\* sep.join(l) for spelled strings
RECURSIVE JoinWith(_, _)
JoinWith(l, sep) ==
    IF l = <<>> THEN <<>>
    ELSE IF Len(l) = 1 THEN l[1]
    ELSE l[1] \o sep \o JoinWith(Tail(l), sep)

\* to_literal(v), spelled, and str(v) for an Expression v: Value.__str__,
\* Lookup.__str__, InfixFunction.__str__, NotF.__str__, BinFunction.__str__,
\* UnaryFunction.__str__, VarArgsFunction.__str__ and EmptyFunction.__str__
RECURSIVE to_literal_chars(_)
RECURSIVE ExpressionStr(_)
RECURSIVE LookupStr(_, _)
LookupStr(segs, o) ==
    IF segs = <<>> THEN o
    ELSE IF IsVar(Head(segs))
         THEN LookupStr(Tail(segs), o \o <<"[">> \o ExpressionStr(Head(segs)) \o <<"]">>)
    ELSE IF Head(segs).k = "str"
         THEN LookupStr(Tail(segs),
                        o \o (IF o = <<>> THEN <<>> ELSE <<".">>) \o Chars(Head(segs).s))
    ELSE NoLiteral

ExpressionStr(v) ==
    CASE v.k = "value" -> Chars(v.s)
      [] v.k = "lookup" -> LookupStr(v.args, <<>>)
      [] IsInfix(v) ->
            JoinWith([i \in 1..Len(v.args) |-> to_literal_chars(v.args[i])],
                     <<" ">> \o Chars(InfixOp(v.k)) \o <<" ">>)
      [] v.k = "not" ->
            IF IsInfix(v.args[1]) THEN <<"!", "(">> \o ExpressionStr(v.args[1]) \o <<")">>
            ELSE <<"!">> \o ExpressionStr(v.args[1])
      [] OTHER ->
            Chars(v.k) \o <<"(">> \o
            JoinWith([i \in 1..Len(v.args) |-> to_literal_chars(v.args[i])], <<",", " ">>)
            \o <<")">>

to_literal_chars(v) ==
    CASE IsExpression(v) -> ExpressionStr(v)
      [] v.k = "null" -> Chars("null")
      [] v = PyTrue -> Chars("true")
      [] v = PyFalse -> Chars("false")
      [] v.k = "int" -> IntStr(v.n)
      [] v.k = "float" -> FloatStr(v)
      [] v.k = "str" -> <<"'">> \o DoubleQuotes(Chars(v.s)) \o <<"'">>
      [] OTHER -> NoLiteral

\* the classes of characters the regular expressions name
Digits == { Digit(d) : d \in 0..9 }
HexDigits == Digits \cup {"a", "b", "c", "d", "e", "f", "A", "B", "C", "D", "E", "F"}
LowerCase ==
    <<"a", "b", "c", "d", "e", "f", "g", "h", "i", "j", "k", "l", "m",
      "n", "o", "p", "q", "r", "s", "t", "u", "v", "w", "x", "y", "z">>
UpperCase ==
    <<"A", "B", "C", "D", "E", "F", "G", "H", "I", "J", "K", "L", "M",
      "N", "O", "P", "Q", "R", "S", "T", "U", "V", "W", "X", "Y", "Z">>
Letters == { LowerCase[i] : i \in 1..26 } \cup { UpperCase[i] : i \in 1..26 }
NameChars == Letters \cup Digits \cup {"_", "-"}

AllIn(cs, S) == \A i \in 1..Len(cs) : cs[i] \in S

\* s.lower()
LowerChar(c) ==
    IF \E i \in 1..26 : UpperCase[i] = c
    THEN LowerCase[CHOOSE i \in 1..26 : UpperCase[i] = c]
    ELSE c

Lower(cs) == [i \in 1..Len(cs) |-> LowerChar(cs[i])]

\* v.strip()
RECURSIVE StripLeft(_)
StripLeft(cs) == IF cs # <<>> /\ Head(cs) = " " THEN StripLeft(Tail(cs)) ELSE cs

RECURSIVE StripRight(_)
StripRight(cs) ==
    IF cs # <<>> /\ cs[Len(cs)] = " " THEN StripRight(SubSeq(cs, 1, Len(cs) - 1)) ELSE cs

Strip(cs) == StripRight(StripLeft(cs))

\* cs without a `-` at its start
Unsigned(cs) == IF cs # <<>> /\ Head(cs) = "-" THEN Tail(cs) ELSE cs

\* INT = '^-?[0-9]+$'
MatchINT(v) == Unsigned(v) # <<>> /\ AllIn(Unsigned(v), Digits)

\* where the point of a text that FLOAT matches stands, in u = Unsigned(v)
IsPointAt(u, i) ==
    /\ u[i] = "."
    /\ AllIn(SubSeq(u, 1, i - 1), Digits)
    /\ AllIn(SubSeq(u, i + 1, Len(u)), Digits)

\* FLOAT = '^-?[0-9]+\.[0-9]+$'
MatchFLOAT(v) == \E i \in 2..(Len(Unsigned(v)) - 1) : IsPointAt(Unsigned(v), i)

\* HEX = '^0x[0-9a-fA-F]+$'
MatchHEX(v) ==
    Len(v) >= 3 /\ v[1] = "0" /\ v[2] = "x" /\ AllIn(SubSeq(v, 3, Len(v)), HexDigits)

\* the end of a text that EXP matches: `-?[eE]([0-9.]+)$`
MatchExponent(r) ==
    /\ Len(Unsigned(r)) >= 2
    /\ Head(Unsigned(r)) \in {"e", "E"}
    /\ AllIn(Tail(Unsigned(r)), Digits \cup {"."})

\* EXP = '^(-?[0-9]+\.\[0-9]+)-?[eE]([0-9.]+)$': the bracket is escaped, so
\* after the point the expression asks for the characters `[0-9` and one or
\* more `]`, not for digits
MatchEXPAt(u, i, j) ==
    /\ AllIn(SubSeq(u, 1, i), Digits)
    /\ SubSeq(u, i + 1, i + 5) = <<".", "[", "0", "-", "9">>
    /\ AllIn(SubSeq(u, i + 6, j), {"]"})
    /\ MatchExponent(SubSeq(u, j + 1, Len(u)))

MatchEXP(v) ==
    \E i \in 1..Len(Unsigned(v)) : \E j \in (i + 6)..Len(Unsigned(v)) :
       MatchEXPAt(Unsigned(v), i, j)

\* VALUE = '^[a-zA-Z][_a-zA-Z0-9\-]*$'
MatchVALUE(v) == v # <<>> /\ Head(v) \in Letters /\ AllIn(Tail(v), NameChars)

\* int(v) for a text INT matches
DigitValue(c) == CHOOSE d \in 0..9 : Digit(d) = c

RECURSIVE DigitsValue(_)
DigitsValue(cs) ==
    IF cs = <<>> THEN 0
    ELSE 10 * DigitsValue(SubSeq(cs, 1, Len(cs) - 1)) + DigitValue(cs[Len(cs)])

IntValue(v) == IF Head(v) = "-" THEN -DigitsValue(Tail(v)) ELSE DigitsValue(v)

\* the digits after the point without the zeros at their end
RECURSIVE Fraction(_)
Fraction(cs) ==
    IF Len(cs) > 1 /\ cs[Len(cs)] = "0" THEN Fraction(SubSeq(cs, 1, Len(cs) - 1)) ELSE cs

\* float(v) for a text FLOAT matches, u being Unsigned(v) and i the place
\* of the point
FloatAt(v, u, i) ==
    PyFloat(IF Head(v) = "-" THEN "-" ELSE "", DigitsValue(SubSeq(u, 1, i - 1)),
            Fraction(SubSeq(u, i + 1, Len(u))))

FloatValue(v) ==
    FloatAt(v, Unsigned(v), CHOOSE i \in 2..(Len(Unsigned(v)) - 1) : IsPointAt(Unsigned(v), i))

\* v.replace("''", "'")
RECURSIVE SingleQuotes(_)
SingleQuotes(cs) ==
    IF cs = <<>> THEN <<>>
    ELSE IF Len(cs) >= 2 /\ cs[1] = "'" /\ cs[2] = "'"
         THEN <<"'">> \o SingleQuotes(SubSeq(cs, 3, Len(cs)))
    ELSE <<Head(cs)>> \o SingleQuotes(Tail(cs))

\* a Function class, as the object that stands where its name was read
PyClass(name) == Node("class", name, 0, <<>>)

\* NAMED_FUNCTIONS: the class under the key `key`, a lower-case name
NamedFunctions ==
    {"contains", "startsWith", "endsWith", "toJSON", "fromJSON", "hashFiles",
     "success", "always", "cancelled"}

IsNamedFunction(key) == \E name \in NamedFunctions : Join(Lower(Chars(name))) = key

NamedFunction(key) ==
    PyClass(CHOOSE name \in NamedFunctions : Join(Lower(Chars(name))) = key)

\* Value.__new__(cls, s), s spelled: the class of a named function when s is
\* its name in any case, and a Value otherwise
ValueNew(cs) ==
    IF IsNamedFunction(Join(Lower(cs))) THEN NamedFunction(Join(Lower(cs)))
    ELSE IF "." \in {cs[i] : i \in 1..Len(cs)} THEN PyRaise("AssertionError")
    ELSE Value(Join(cs))

\* LOOKUP = '(?:\.[a-zA-Z][_a-zA-Z0-9\-]*)|(?:\[[^\]]+\])': the end of
\* the match that starts at i, or 0 when there is none
RECURSIVE NameEnd(_, _)
NameEnd(v, i) == IF i < Len(v) /\ v[i + 1] \in NameChars THEN NameEnd(v, i + 1) ELSE i

RECURSIVE BracketEnd(_, _)
BracketEnd(v, i) ==
    IF i > Len(v) THEN 0
    ELSE IF v[i] = "]" THEN i
    ELSE BracketEnd(v, i + 1)

MatchLOOKUPAt(v, i) ==
    IF v[i] = "." /\ i < Len(v) /\ v[i + 1] \in Letters THEN NameEnd(v, i + 1)
    ELSE IF v[i] = "[" /\ i + 1 < Len(v) /\ v[i + 1] # "]" THEN BracketEnd(v, i + 2)
    ELSE 0

\* LOOKUP.finditer(v) from i on: the matches, each as <<start, end>>
RECURSIVE FindLOOKUP(_, _)
FindLOOKUP(v, i) ==
    IF i > Len(v) THEN <<>>
    ELSE IF MatchLOOKUPAt(v, i) = 0 THEN FindLOOKUP(v, i + 1)
    ELSE <<<<i, MatchLOOKUPAt(v, i)>>>> \o FindLOOKUP(v, MatchLOOKUPAt(v, i) + 1)

\* from_literal(v), v spelled
RECURSIVE from_literal_chars(_)
\* the part of a Lookup that a match of LOOKUP gives
LookupArg(v, m) ==
    IF v[m[1]] = "." THEN PyStr(Join(SubSeq(v, m[1] + 1, m[2])))
    ELSE from_literal_chars(SubSeq(v, m[1] + 1, m[2] - 1))

LookupArgs(v, ms) ==
    <<PyStr(Join(SubSeq(v, 1, ms[1][1] - 1)))>> \o [i \in 1..Len(ms) |-> LookupArg(v, ms[i])]

LookupOf(args) ==
    IF \E i \in 1..Len(args) : IsRaise(args[i])
    THEN args[CHOOSE i \in 1..Len(args) :
                 IsRaise(args[i]) /\ \A h \in 1..(i - 1) : ~IsRaise(args[h])]
    ELSE Lookup(args)

FromLiteralStripped(v) ==
    CASE v = <<"n", "u", "l", "l">> -> PyNone
      [] v = <<"t", "r", "u", "e">> -> PyTrue
      [] v = <<"f", "a", "l", "s", "e">> -> PyFalse
      [] MatchINT(v) -> PyInt(IntValue(v))
      [] MatchFLOAT(v) -> FloatValue(v)
      [] MatchHEX(v) \/ MatchEXP(v) -> PyStr(Join(v))
      [] v = <<>> -> PyRaise("IndexError")
      [] v[1] = "'" /\ v[Len(v)] = "'" -> PyStr(Join(SingleQuotes(SubSeq(v, 2, Len(v) - 1))))
      [] FindLOOKUP(v, 1) # <<>> -> LookupOf(LookupArgs(v, FindLOOKUP(v, 1)))
      [] MatchVALUE(v) -> ValueNew(v)
      [] OTHER -> PyRaise("ValueError")

from_literal_chars(cs) == FromLiteralStripped(Strip(cs))

\* str(v) for any value v
PyStrChars(v) ==
    CASE IsExpression(v) -> ExpressionStr(v)
      [] v.k = "str" -> Chars(v.s)
      [] v.k = "bool" -> Chars(IF v.n = 1 THEN "True" ELSE "False")
      [] v.k = "null" -> Chars("None")
      [] v.k = "int" -> IntStr(v.n)
      [] v.k = "float" -> FloatStr(v)
      [] OTHER -> NoLiteral


-----------------------------------------------------------------------------
(* expressions.py: AndF.                                                    *)

\* an And whose loop passes over a false operand as it does over a true one
RECURSIVE AndLoopSkipFalse(_, _)
AndLoopSkipFalse(args, nargs) ==
    IF args = <<>>
    THEN IF nargs = <<>> THEN PyTrue
         ELSE IF Len(nargs) = 1 THEN nargs[1]
         ELSE AndObj(nargs)
    ELSE IF InFalseNoneEmpty(Head(args)) \/ IsTrue(Head(args)) \/ PyIn(Head(args), nargs)
         THEN AndLoopSkipFalse(Tail(args), nargs)
         ELSE AndLoopSkipFalse(Tail(args), Append(nargs, Head(args)))

\* AndF.__new__: the loop over the operands, then the three ways out of it.
RECURSIVE AndLoop(_, _)
AndLoop(args, nargs) ==
    IF args = <<>>
    THEN IF nargs = <<>> THEN PyTrue
         ELSE IF Len(nargs) = 1 THEN nargs[1]
         ELSE AndObj(nargs)
    ELSE LET a == Head(args) IN
         IF InFalseNoneEmpty(a) THEN PyFalse
         ELSE IF IsTrue(a) THEN AndLoop(Tail(args), nargs)
         ELSE IF PyIn(a, nargs) THEN AndLoop(Tail(args), nargs)
         ELSE AndLoop(Tail(args), Append(nargs, a))

AndF(args) == AndLoop(args, <<>>)

-----------------------------------------------------------------------------
(* expressions.py: OrF, NotF, EqF, NotEqF and the named functions.          *)

\* OrF.__new__: the loop over the operands, then the three ways out of it.
RECURSIVE OrLoop(_, _)
OrLoop(args, nargs) ==
    IF args = <<>>
    THEN IF nargs = <<>> THEN PyFalse
         ELSE IF Len(nargs) = 1 THEN nargs[1]
         ELSE FunctionObj("or", 0, nargs)
    ELSE IF IsTrue(Head(args)) THEN PyTrue
    ELSE IF InFalseNoneEmpty(Head(args)) THEN OrLoop(Tail(args), nargs)
    ELSE IF PyIn(Head(args), nargs) THEN OrLoop(Tail(args), nargs)
    ELSE OrLoop(Tail(args), Append(nargs, Head(args)))

OrF(args) == OrLoop(args, <<>>)

\* UnaryFunction.__new__ with NotF.realf
NotF(a) ==
    IF IsExpression(a) THEN FunctionObj("not", 0, <<a>>) ELSE PyBool(~PyTruthy(a))

\* EqF.expf and NotEqF.expf: True, or False, when a == b, and None otherwise
Expf(name, a, b) ==
    IF PyEq(a, b) THEN PyBool(name = "eq") ELSE PyNone

\* an Eq that is kept as an object whenever an operand is a Var
BinInfixFunctionNoExpf(name, a, b) ==
    IF ~IsExpression(a) /\ ~IsExpression(b)
    THEN PyBool(PyEq(a, b) <=> (name = "eq"))
    ELSE FunctionObj(name, 0, <<a, b>>)

\* BinInfixFunction.__new__ with the realf and expf of EqF (name "eq") and
\* of NotEqF (name "neq")
BinInfixFunction(name, a, b) ==
    IF ~IsExpression(a) /\ ~IsExpression(b)
    THEN PyBool(PyEq(a, b) <=> (name = "eq"))
    ELSE IF IsVar(a) /\ IsVar(b) /\ PyIn(Expf(name, a, b), <<PyFalse, PyTrue>>)
    THEN Expf(name, a, b)
    ELSE FunctionObj(name, 0, <<a, b>>)

EqF(a, b) == BinInfixFunction("eq", a, b)
NotEqF(a, b) == BinInfixFunction("neq", a, b)

\* ContainsF.realf, StartsWithF.realf and EndsWithF.realf on spelled strings
Realf(name, a, b) ==
    CASE name = "contains" -> PyBool(HasPart(a, b))
      [] name = "startsWith" -> PyBool(HasPrefix(a, b))
      [] OTHER -> PyBool(HasSuffix(a, b))

\* BinFunction.__new__: an object when an operand is a Value or a Lookup,
\* and otherwise realf on str(a) and str(b)
BinFunction(name, a, b) ==
    IF IsVar(a) \/ IsVar(b) THEN FunctionObj(name, 0, <<a, b>>)
    ELSE Realf(name, PyStrChars(a), PyStrChars(b))

ContainsF(a, b) == BinFunction("contains", a, b)
StartsWithF(a, b) == BinFunction("startsWith", a, b)
EndsWithF(a, b) == BinFunction("endsWith", a, b)

\* VarArgsFunction.__new__ for HashFilesF
HashFilesF(args) == FunctionObj("hashFiles", 0, args)

\* SuccessF(), AlwaysF() and CancelledF()
EmptyFunction(name) == FunctionObj(name, 0, <<>>)

-----------------------------------------------------------------------------
(* expressions.py: text, tokens and evaluation.                            *)
(*                                                                         *)
(* The text of an expression is kept as its sequence of tokens. A literal, *)
(* a Value and a Lookup of plain names are each one token, and for these   *)
(* from_literal(to_literal(v)) is v again: to_literal writes 1 as `1`, the *)
(* string x as `'x'`, a Value as its name and a Lookup as its dotted       *)
(* names. An operator is an "op" token.                                    *)

OpTok(op) == Node("op", op, 0, <<>>)
\* the tuple (F, a, c) that swizzle builds for the infix function F
CallTuple(f, args) == Node("call", f, 0, args)
\* a Python list that is left where an expression tree was expected
PyList(items) == Node("list", "", 0, items)

\* INFIX_FUNCTIONS, as far as the model's expressions use it
InfixName(op) ==
    CASE op = "&&" -> "and"
      [] op = "||" -> "or"
      [] op = "==" -> "eq"
      [] op = "!=" -> "neq"
      [] OTHER -> ""

\* str(e) for an Expression and to_literal(v) for an operand: InfixFunction.__str__
\* joins the operands' to_literal with the operator, and to_literal of an
\* Expression is str of it, without parentheses.
RECURSIVE to_literal(_)
RECURSIVE JoinAnd(_)
JoinAnd(args) ==
    IF Len(args) = 1 THEN to_literal(args[1])
    ELSE to_literal(args[1]) \o <<OpTok("&&")>> \o JoinAnd(Tail(args))

to_literal(v) == IF v.k = "and" THEN JoinAnd(v.args) ELSE <<v>>

\* from_literal on one run of identifier characters without `.` or `[`
from_literal(s) ==
    CASE s = "null" -> PyNone
      [] s = "true" -> PyTrue
      [] s = "false" -> PyFalse
      [] OTHER -> Value(s)

\* The tokens BITS finds in a plain string of the model: the empty string
\* has none, every other string of the model is one run of letters.
StrTokens(s) == IF s = "" THEN <<>> ELSE <<from_literal(s)>>

\* a Python tuple; the tuple whose first item is a Function class is a call tuple
PyTuple(items) ==
    IF items # <<>> /\ items[1].k = "class" THEN CallTuple(items[1].s, Tail(items))
    ELSE Node("tuple", "", 0, items)

\* isinstance(l, (list, tuple)): a Lookup is a tuple
IsSequence(l) == l.k \in {"list", "tuple", "call", "lookup"}

\* the items of a list or tuple
Items(l) == IF l.k = "call" THEN <<Node("class", l.s, 0, <<>>)>> \o l.args ELSE l.args

\* l[i:] for a list or tuple l (the slice of a Lookup is a plain tuple)
SliceFrom(l, i) ==
    IF l.k = "list" THEN PyList(SubSeq(Items(l), i, Len(Items(l))))
    ELSE PyTuple(SubSeq(Items(l), i, Len(Items(l))))

\* b in INFIX_FUNCTIONS: the text of an infix operator
IsInfixText(b) == b.k \in {"op", "str"} /\ InfixName(b.s) # ""

\* swizzle(l): `!` at the front makes a NotF call of the next item, an infix
\* operator at the second place combines the first item with the swizzle of
\* everything after the operator, and a list of one item is that item.
RECURSIVE swizzle(_)
\* `if isinstance(l, list) and len(l) == 1: return swizzle(l[0])`, else `return l`
SwizzleOne(l) == IF l.k = "list" /\ Len(l.args) = 1 THEN swizzle(l.args[1]) ELSE l

\* `return (INFIX_FUNCTIONS[b], a, c)` with a and c swizzled, when b is an operator
SwizzlePut(l, a, b, c) ==
    IF IsRaise(a) THEN a
    ELSE IF IsRaise(c) THEN c
    ELSE IF b.k \in {"list", "dict"} THEN PyRaise("AssertionError")
    ELSE IF IsInfixText(b) THEN CallTuple(InfixName(b.s), <<a, c>>)
    ELSE SwizzleOne(l)

\* `if len(l) > 2:` and what follows it
SwizzleInfix(l) ==
    IF IsRaise(l) \/ ~IsSequence(l) THEN l
    ELSE IF Len(Items(l)) > 2
    THEN SwizzlePut(l, swizzle(Items(l)[1]), Items(l)[2], swizzle(SliceFrom(l, 3)))
    ELSE SwizzleOne(l)

\* `l = [(NotF, swizzle(l[1]))]+l[2:]`, which needs l to be a list
SwizzleNot(l, inner) ==
    IF IsRaise(inner) THEN inner
    ELSE IF l.k # "list" THEN PyRaise("TypeError")
    ELSE swizzle(PyList(<<CallTuple("not", <<inner>>)>> \o SubSeq(l.args, 3, Len(l.args))))

swizzle(l) ==
    IF ~IsSequence(l) THEN l
    ELSE IF Len(Items(l)) > 1 /\ Items(l)[1].k = "str" /\ Items(l)[1].s = "!"
    THEN SwizzleInfix(SwizzleNot(l, swizzle(Items(l)[2])))
    ELSE SwizzleInfix(l)

\* S = "('[^']*')+" and I = "[a-zA-Z.\-0-9_\[\]]+", the two parts of BITS
IChars == Letters \cup Digits \cup {".", "-", "_", "[", "]"}

\* the place of the first quote at or after i, or 0
RECURSIVE QuoteEnd(_, _)
QuoteEnd(cs, i) ==
    IF i > Len(cs) THEN 0
    ELSE IF cs[i] = "'" THEN i
    ELSE QuoteEnd(cs, i + 1)

\* the end of the match of S that starts at i, or 0 when there is none: S takes
\* as many quoted parts as follow each other
RECURSIVE MatchSAt(_, _)
MatchSLonger(more, e) == IF more # 0 THEN more ELSE e

MatchSFrom(cs, e) == IF e = 0 THEN 0 ELSE MatchSLonger(MatchSAt(cs, e + 1), e)

MatchSAt(cs, i) ==
    IF i > Len(cs) \/ cs[i] # "'" THEN 0
    ELSE MatchSFrom(cs, QuoteEnd(cs, i + 1))

\* the end of the match of I that starts at i
RECURSIVE MatchIAt(_, _)
MatchIAt(cs, i) == IF i < Len(cs) /\ cs[i + 1] \in IChars THEN MatchIAt(cs, i + 1) ELSE i

\* tokenizer's split(s) from i on: what it yields, in order. A match of BITS
\* yields its from_literal, which may raise; every other character that is
\* not a space yields itself.
RECURSIVE Split(_, _)
SplitMatch(cs, i, e) == <<from_literal_chars(SubSeq(cs, i, e))>> \o Split(cs, e + 1)

Split(cs, i) ==
    IF i > Len(cs) THEN <<>>
    ELSE IF MatchSAt(cs, i) # 0 THEN SplitMatch(cs, i, MatchSAt(cs, i))
    ELSE IF cs[i] \in IChars THEN SplitMatch(cs, i, MatchIAt(cs, i))
    ELSE IF cs[i] = " " THEN Split(cs, i + 1)
    ELSE <<PyStr(cs[i])>> \o Split(cs, i + 1)

\* tokenizer's stack: a list of lists
Top(stack) == stack.args[Len(stack.args)]
Pop(stack) == PyList(SubSeq(stack.args, 1, Len(stack.args) - 1))
\* stack[-1].append(i)
Push(stack, i) == PyList(Pop(stack).args \o <<PyList(Append(Top(stack).args, i))>>)
\* stack[-1][-1] = v
SetLast(stack, v) ==
    PyList(Pop(stack).args
           \o <<PyList(SubSeq(Top(stack).args, 1, Len(Top(stack).args) - 1) \o <<v>>)>>)

\* len(i), and -1 where i has no len()
PyLen(i) ==
    CASE IsSequence(i) -> Len(Items(i))
      [] IsStr(i) -> Len(Chars(i.s))
      [] i.k = "dict" -> Len(i.args)
      [] OTHER -> -1

\* i[n - 1] for a list, a tuple or a str i
PyAt(i, n) == IF IsSequence(i) THEN Items(i)[n] ELSE PyStr(Chars(i.s)[n])

\* the subclasses of BinFunction, VarArgsFunction and EmptyFunction among the
\* named functions
BinFunctions == {"contains", "startsWith", "endsWith"}
VarArgsFunctions == {"hashFiles"}
EmptyFunctions == {"success", "always", "cancelled"}

\* the branch for a BinFunction class l: `stack[-1][-1] = (l, i[0], i[2])`
BinCall(l, i) ==
    IF PyLen(i) = -1 THEN PyRaise("TypeError")
    ELSE IF PyLen(i) # 3 THEN PyRaise("AssertionError")
    ELSE IF ~PyEq(PyAt(i, 2), PyStr(",")) THEN PyRaise("AssertionError")
    ELSE CallTuple(l.s, <<PyAt(i, 1), PyAt(i, 3)>>)

\* the items of i at the even Python indices
RECURSIVE EveryOther(_)
EveryOther(items) ==
    IF items = <<>> THEN <<>>
    ELSE <<Head(items)>> \o EveryOther(SubSeq(items, 3, Len(items)))

\* the branch for a VarArgsFunction class l
VarArgsCall(l, i) ==
    IF ~IsSequence(i) THEN CallTuple(l.s, <<i>>)
    ELSE IF \E j \in 1..Len(Items(i)) : j % 2 = 0 /\ ~PyEq(Items(i)[j], PyStr(","))
    THEN PyRaise("AssertionError")
    ELSE CallTuple(l.s, EveryOther(Items(i)))

\* the branch for an EmptyFunction class l
EmptyCall(l, i) ==
    IF PyLen(i) = -1 THEN PyRaise("TypeError")
    ELSE IF PyLen(i) # 0 THEN PyRaise("AssertionError")
    ELSE CallTuple(l.s, <<>>)

SetLastOrRaise(stack, v) == IF IsRaise(v) THEN v ELSE SetLast(stack, v)

\* the body of tokenizer's loop from `if stack[-1]:` on, l being stack[-1][-1]
TokenAfter(stack, l, i) ==
    CASE l.k = "str" /\ i.k = "str" /\ InfixName(l.s \o i.s) # "" ->
            SetLast(stack, PyStr(l.s \o i.s))
      [] l.k = "class" /\ l.s \in BinFunctions -> SetLastOrRaise(stack, BinCall(l, i))
      [] l.k = "class" /\ l.s \in VarArgsFunctions -> SetLastOrRaise(stack, VarArgsCall(l, i))
      [] l.k = "class" /\ l.s \in EmptyFunctions -> SetLastOrRaise(stack, EmptyCall(l, i))
      [] OTHER -> Push(stack, i)

TokenPut(stack, i) ==
    IF IsRaise(i) THEN i
    ELSE IF stack.args = <<>> THEN PyRaise("IndexError")
    ELSE IF Top(stack).args = <<>> THEN Push(stack, i)
    ELSE TokenAfter(stack, Top(stack).args[Len(Top(stack).args)], i)

\* one pass of `for i in split(s)`
TokenStep(stack, i) ==
    CASE IsRaise(i) -> i
      [] i.k = "str" /\ i.s = "(" -> PyList(Append(stack.args, PyList(<<>>)))
      [] i.k = "str" /\ i.s = ")" -> TokenPut(Pop(stack), swizzle(Top(stack)))
      [] OTHER -> TokenPut(stack, i)

RECURSIVE TokenLoop(_, _)
TokenLoop(stack, items) ==
    IF IsRaise(stack) \/ items = <<>> THEN stack
    ELSE TokenLoop(TokenStep(stack, Head(items)), Tail(items))

\* `assert len(stack) == 1` and `return swizzle(stack[0])`
TokenEnd(stack) ==
    IF IsRaise(stack) THEN stack
    ELSE IF Len(stack.args) # 1 THEN PyRaise("AssertionError")
    ELSE swizzle(stack.args[1])

\* every exception is raised again as a TypeError
ParseError(r) == IF IsRaise(r) THEN PyRaise("TypeError") ELSE r

\* tokenizer(s), s spelled
tokenizer_chars(cs) == ParseError(TokenEnd(TokenLoop(PyList(<<PyList(<<>>)>>), Split(cs, 1))))

\* `j in ctx` for two strings
StrContains(s, j) == HasPart(Chars(s), Chars(j))

DictHas(d, key) == \E i \in 1..Len(d.args) : d.args[i].s = key
DictGet(d, key) ==
    LET i == CHOOSE i \in 1..Len(d.args) : d.args[i].s = key IN d.args[i].args[1]

\* ctx[j] for a list or tuple ctx that holds j: an int is an index, from the
\* end when negative, and nothing else can be one
SeqItem(ctx, j) ==
    IF j.k \notin {"int", "bool"} THEN PyRaise("TypeError")
    ELSE IF j.n >= 0 /\ j.n < Len(ctx.args) THEN ctx.args[j.n + 1]
    ELSE IF j.n < 0 /\ -j.n <= Len(ctx.args) THEN ctx.args[Len(ctx.args) + j.n + 1]
    ELSE PyRaise("IndexError")

\* var_eval's walk `while len(cv) > 0`: ctx is the level reached, cv the
\* segments left, ov all the segments.
RECURSIVE LookupWalk(_, _, _)
RECURSIVE LookupStep(_, _, _)
\* `ctx = ctx[j]` on a list or tuple, and the walk from there
LookupStep(item, cv, ov) == IF IsRaise(item) THEN item ELSE LookupWalk(item, cv, ov)

LookupWalk(ctx, cv, ov) ==
    IF cv = <<>> THEN ctx
    ELSE LET j == Head(cv) IN
         CASE ctx.k = "dict" ->
                IF IsStr(j) /\ DictHas(ctx, j.s)
                THEN LookupWalk(DictGet(ctx, j.s), Tail(cv), ov)
                ELSE IF j.k \in {"dict", "list"} THEN PyRaise("TypeError")
                ELSE Lookup(ov)
           [] IsStr(ctx) ->
                IF ~IsStr(j) THEN PyRaise("TypeError")
                ELSE IF StrContains(ctx.s, j.s) THEN PyRaise("TypeError")
                ELSE Lookup(ov)
           [] ctx.k \in {"lookup", "list"} ->
                IF PyIn(j, ctx.args) THEN LookupStep(SeqItem(ctx, j), Tail(cv), ov)
                ELSE Lookup(ov)
           [] OTHER -> PyRaise("TypeError")

\* the first exception among the values l, which holds one
FirstRaise(l) ==
    l[CHOOSE i \in 1..Len(l) : IsRaise(l[i]) /\ \A h \in 1..(i-1) : ~IsRaise(l[h])]

HasRaise(l) == \E i \in 1..Len(l) : IsRaise(l[i])

\* var_eval, the Lookup part after `ov` is built: the walk from the context
LookupEval(ov, context) ==
    IF HasRaise(ov) THEN FirstRaise(ov) ELSE LookupWalk(context, ov, ov)

RECURSIVE var_eval(_, _)
var_eval(v, context) ==
    IF v.k = "value"
    THEN IF DictHas(context, v.s) THEN DictGet(context, v.s) ELSE v
    ELSE LookupEval([i \in 1..Len(v.args) |->
                       IF IsVar(v.args[i]) THEN var_eval(v.args[i], context)
                       ELSE v.args[i]], context)

\* f(*args) for the function class a call tuple names; an exception raised
\* while the arguments were evaluated comes first
Apply(f, args) ==
    CASE HasRaise(args) -> FirstRaise(args)
      [] f = "and" -> AndF(args)
      [] f = "or" -> OrF(args)
      [] f \in {"eq", "neq"} /\ Len(args) = 2 -> BinInfixFunction(f, args[1], args[2])
      [] f = "not" /\ Len(args) = 1 -> NotF(args[1])
      [] f \in BinFunctions /\ Len(args) = 2 -> BinFunction(f, args[1], args[2])
      [] f \in VarArgsFunctions -> HashFilesF(args)
      [] f \in EmptyFunctions /\ args = <<>> -> EmptyFunction(f)
      [] OTHER -> PyRaise("TypeError")

RECURSIVE tokens_eval(_, _)
tokens_eval(t, context) ==
    CASE t.k = "list" -> PyRaise("AssertionError")
      [] IsVar(t) -> IF context.args # <<>> THEN var_eval(t, context) ELSE t
      [] t.k = "call" ->
            Apply(t.s, [i \in 1..Len(t.args) |-> tokens_eval(t.args[i], context)])
      [] OTHER -> t

\* simplify(exp, context): an Expression is written out and read again, a value
\* that is not a string is returned as it is, and a plain string is itself read
\* as the text of an expression.
\* the end of simplify: `if isinstance(o, Value): if o in context: o = context[o]`
ValueInContext(o, context) ==
    IF o.k = "value" /\ DictHas(context, o.s) THEN DictGet(context, o.s) ELSE o

simplify(exp, context) ==
    IF ~IsExpression(exp) /\ ~IsStr(exp) THEN exp
    ELSE ValueInContext(
            tokens_eval(swizzle(PyList(IF IsExpression(exp) THEN to_literal(exp)
                                       ELSE StrTokens(exp.s))), context),
            context)

-----------------------------------------------------------------------------
(* __init__.py: build_inputs.                                               *)

\* k.startswith('includes'), for the input names of the model
StartsWithIncludes(k) == k \in {"includes", "includes-a"}

\* files.get_filepath(root_filepath, v, filetype='action'): the FilePath object
\* that stands for the include target v as seen from root_filepath
FilePath(root, v) == Node("filepath", v, 0, <<PyStr(root)>>)

\* resolve_paths(root_filepath, data): a dict value is resolved in turn, and the
\* value of a key that starts with `includes` must be a string and is replaced
\* by its FilePath. The result is the items of data afterwards, or a raise.
\* data[k] = nv, then the rest of the items; a raise ends the loop
ResolveCons(key, nv, rest) ==
    IF IsRaise(nv) THEN nv
    ELSE IF IsRaise(rest) THEN rest
    ELSE PyDict(<<PyItem(key, nv)>> \o rest.args)

RECURSIVE resolve_paths(_, _)
resolve_paths(root, items) ==
    IF items = <<>> THEN PyDict(<<>>)
    ELSE ResolveCons(Head(items).s,
                     CASE Head(items).args[1].k = "dict" ->
                            resolve_paths(root, Head(items).args[1].args)
                       [] ~StartsWithIncludes(Head(items).s) -> Head(items).args[1]
                       [] ~IsStr(Head(items).args[1]) -> PyRaise("AssertionError")
                       [] OTHER -> FilePath(root, Head(items).args[1].s),
                     resolve_paths(root, Tail(items)))

\* marker = {}: the object that `v is marker` recognises
Marker == Node("dict", "marker", 0, <<>>)

\* with_data.pop(in_name)
DictPop(items, key) == SelectSeq(items, LAMBDA it : it.s # key)

\* `if not in_info: in_info = {}`
InInfo(d) == IF PyTruthy(d.args[1]) THEN d.args[1] ELSE PyDict(<<>>)

\* a binding that prefers the declared default to the value `with` supplies
InputValueDefaultFirst(in_name, in_info, with_data) ==
    IF DictHas(in_info, "default") THEN DictGet(in_info, "default")
    ELSE IF DictHas(PyDict(with_data), in_name) THEN DictGet(PyDict(with_data), in_name)
    ELSE Marker

\* v after `v = marker`, `if 'default' in in_info: v = in_info['default']` and
\* `if in_name in with_data: v = with_data.pop(in_name)`
InputValue(in_name, in_info, with_data) ==
    IF DictHas(PyDict(with_data), in_name) THEN DictGet(PyDict(with_data), in_name)
    ELSE IF DictHas(in_info, "default") THEN DictGet(in_info, "default")
    ELSE Marker

\* a reading of `required` that takes no input as required
NeverRequired(in_info) == FALSE

\* in_info.get('required', False), as the `if` reads it
InputRequired(in_info) ==
    IF DictHas(in_info, "required") THEN PyTruthy(DictGet(in_info, "required")) ELSE FALSE

\* the check `if required: if v is marker: raise KeyError`, then inputs[in_name] = v
BuildInputsBind(st, in_name, required, v) ==
    IF required /\ v = Marker
    THEN [st EXCEPT !.with_data = DictPop(st.with_data, in_name),
                    !.raised = Node("raise", "missing required argument", 0, <<PyStr(in_name)>>)]
    ELSE [st EXCEPT !.with_data = DictPop(st.with_data, in_name),
                    !.inputs = Append(st.inputs, PyItem(in_name, v))]

\* One pass of `for in_name, in_info in target_yamldata.get('inputs', {}).items()`
\* on the declaration d = item(in_name, in_info). st holds with_data and inputs;
\* the result is st afterwards, with raised set when the KeyError is raised.
BuildInputsIter(st, d) ==
    BuildInputsBind(st, d.s, InputRequired(InInfo(d)), InputValue(d.s, InInfo(d), st.with_data))

\* an end of build_inputs whose error names the first unused item only
BuildInputsEndFirst(st) ==
    IF st.with_data # <<>>
    THEN Node("raise", "unused extra arguments", 0, <<Head(st.with_data)>>)
    ELSE PyDict(st.inputs)

\* The end of build_inputs: `if with_data: raise KeyError(unused extra arguments)`,
\* naming the items left in with_data, else `return inputs`.
BuildInputsEnd(st) ==
    IF st.with_data # <<>>
    THEN Node("raise", "unused extra arguments", 0, st.with_data)
    ELSE PyDict(st.inputs)

\* The start of build_inputs: with_data is a copy of the `with` of the include,
\* with its paths resolved when current_filepath is not None ("" stands for None).
BuildInputsState(r) ==
    [with_data |-> IF IsRaise(r) THEN <<>> ELSE r.args,
     inputs |-> <<>>,
     raised |-> IF IsRaise(r) THEN r ELSE PyNone]

BuildInputsStart(with, current_filepath) ==
    BuildInputsState(IF current_filepath # "" THEN resolve_paths(current_filepath, with)
                     ELSE PyDict(with))

RECURSIVE BuildInputsLoop(_, _)
BuildInputsLoop(st, decls) ==
    IF st.raised # PyNone THEN st.raised
    ELSE IF decls = <<>> THEN BuildInputsEnd(st)
    ELSE BuildInputsLoop(BuildInputsIter(st, Head(decls)), Tail(decls))

\* build_inputs(target_yamldata, include_yamldata, current_filepath), given the
\* items of target_yamldata.get('inputs', {}) and of include_yamldata.get('with', {})
build_inputs(decls, with, current_filepath) ==
    BuildInputsLoop(BuildInputsStart(with, current_filepath), decls)

-----------------------------------------------------------------------------
(* __init__.py: steps, get_if_exp, expand_input_expressions,               *)
(* expand_step_includes.                                                   *)
(*                                                                         *)
(* A step is [id, type, if, arg, with]. id tells the steps of a document   *)
(* apart; type is the key step_type finds; `if` is <<>> when the step has  *)
(* no `if` key and <<v>> otherwise, v being the value yaml_load gives: a   *)
(* bool or a number, an Expression (written `${{ ... }}`) or a plain       *)
(* string, kept as a "text" node of its tokens; arg is the string under    *)
(* the type's key; with is the items of the `with` mapping.                *)

Step(id, type, if, arg, with) == [id |-> id, type |-> type, if |-> if, arg |-> arg, with |-> with]

\* a plain (unparsed) string holding the text of an expression
Text(tokens) == Node("text", "", 0, tokens)

EmptyContext == PyDict(<<>>)

\* get_if_exp(d): True without an `if` key; an Expression and a value that is
\* no string as they are; a string, given by its tokens or as a value bound
\* to an input, is wrapped in `${{ }}` and parsed, which evaluates its tokens
\* under the empty context.
get_if_exp(d) ==
    IF d.if = <<>> THEN PyTrue
    ELSE IF IsExpression(d.if[1]) THEN d.if[1]
    ELSE IF d.if[1].k = "text" THEN tokens_eval(swizzle(PyList(d.if[1].args)), EmptyContext)
    ELSE IF d.if[1].k = "str" THEN tokens_eval(swizzle(PyList(StrTokens(d.if[1].s))), EmptyContext)
    ELSE d.if[1]

\* expand_input_expressions on one value of the included document: an
\* Expression is simplified under the context, a string without `${{` and any
\* other value stay.
expand_value(v, context) == IF IsExpression(v) THEN simplify(v, context) ELSE v

\* expand_input_expressions on a step of the included document
expand_step_expressions(step, context) ==
    [step EXCEPT !.if = IF step.if = <<>> THEN <<>> ELSE <<expand_value(step.if[1], context)>>,
                 !.with = [i \in 1..Len(step.with) |->
                              PyItem(step.with[i].s, expand_value(step.with[i].args[1], context))]]

\* whether expand_input_expressions raised on this step
StepRaised(step) ==
    \/ step.if # <<>> /\ IsRaise(step.if[1])
    \/ \E i \in 1..Len(step.with) : IsRaise(step.with[i].args[1])

\* get_action_data(current_filepath, name): the document, when one of the two
\* file names is found under the name.
ActionFound(ds, name) == name \in DOMAIN ds

\* context = dict(include_yamldata); context['inputs'] = input_data
IncludeContext(doc, input_data) ==
    PyDict(<<PyItem("name", PyStr(doc.name)),
             PyItem("runs", PyDict(<<PyItem("using", PyStr("includes"))>>)),
             PyItem("inputs", input_data)>>)

\* The body of the loop once step_if is computed: an Expression is stored in
\* the step; False, None and '' (by ==) drop the step; anything else has to be
\* True (`assert step_if is True`) and the step's `if` key is removed.
IncludeStepPut(acc, step, step_if, include_filepath) ==
    CASE IsRaise(step_if) -> [acc EXCEPT !.raised = step_if]
      [] IsExpression(step_if) ->
            [acc EXCEPT !.out = Append(acc.out, <<include_filepath, [step EXCEPT !.if = <<step_if>>]>>)]
      [] InFalseNoneEmpty(step_if) -> acc
      [] ~IsTrue(step_if) -> [acc EXCEPT !.raised = PyRaise("AssertionError")]
      [] OTHER ->
            [acc EXCEPT !.out = Append(acc.out, <<include_filepath, [step EXCEPT !.if = <<>>]>>)]

\* exp.AndF(current_if, get_if_exp(step)), given the step's own condition
StepAnd(current_if, own) == IF IsRaise(own) THEN own ELSE AndF(<<current_if, own>>)

\* One pass of `for i, step in enumerate(include_yamldata['runs']['steps'])`:
\* acc is [out, raised], the result is acc after the pass.
IncludeStepIter(acc, current_if, step, context, include_filepath) ==
    IncludeStepPut(acc, step,
                   simplify(StepAnd(current_if, get_if_exp(step)), context),
                   include_filepath)

RECURSIVE IncludeStepLoop(_, _, _, _, _)
IncludeStepLoop(acc, current_if, todo, context, include_filepath) ==
    IF acc.raised # PyNone \/ todo = <<>> THEN acc
    ELSE IncludeStepLoop(IncludeStepIter(acc, current_if, Head(todo), context, include_filepath),
                         current_if, Tail(todo), context, include_filepath)

\* what expand_step_includes gave when it raised before its loop
IncludeRaised(e, context) ==
    [raised |-> e, out |-> <<>>, current_if |-> PyNone,
     context |-> context, expanded |-> <<>>, reached |-> FALSE]

\* what expand_step_includes gave once its loop ended with acc
IncludeReturn(acc, current_if, context, expanded) ==
    [raised |-> acc.raised,
     out |-> IF acc.raised = PyNone THEN acc.out ELSE <<>>,
     current_if |-> current_if, context |-> context, expanded |-> expanded,
     reached |-> TRUE]

\* from `current_if = get_if_exp(include_step)` on: the loop over the steps
IncludeSteps(include_step, current_if, context, expanded) ==
    IF IsRaise(current_if) THEN IncludeRaised(current_if, context)
    ELSE IncludeReturn(IncludeStepLoop([out |-> <<>>, raised |-> PyNone], current_if,
                                       expanded, context, include_step.arg),
                       current_if, context, expanded)

\* after `yamldata = expand_input_expressions(include_yamldata, context)`
IncludeExpanded(include_step, context, expanded) ==
    IF \E i \in 1..Len(expanded) : StepRaised(expanded[i])
    THEN IncludeRaised(PyRaise("TypeError"), context)
    ELSE IncludeSteps(include_step, get_if_exp(include_step), context, expanded)

\* from `context = dict(include_yamldata)` on, with the inputs bound
IncludeBound(doc, include_step, context) ==
    IncludeExpanded(include_step, context,
                    [i \in 1..Len(doc.steps) |-> expand_step_expressions(doc.steps[i], context)])

\* after `input_data = build_inputs(...)`, whose KeyError becomes a SyntaxError
IncludeInputs(doc, include_step, input_data) ==
    IF IsRaise(input_data)
    THEN IncludeRaised(Node("raise", "SyntaxError", 0, <<input_data>>), EmptyContext)
    ELSE IncludeBound(doc, include_step, IncludeContext(doc, input_data))

\* expand_step_includes(current_filepath, include_step) with the documents ds:
\* [raised, out, current_if, context, expanded, reached], where raised is the
\* exception (PyNone if none), out the list of <<filepath, step>> returned,
\* expanded the steps of the document after expand_input_expressions, and
\* reached tells that the loop over these steps was entered.
expand_step_includes(ds, current_filepath, include_step) ==
    IF ~ActionFound(ds, include_step.arg)
    THEN IncludeRaised(PyRaise("IOError"), EmptyContext)
    ELSE IncludeInputs(ds[include_step.arg], include_step,
                       build_inputs(ds[include_step.arg].inputs, include_step.with,
                                    current_filepath))

\* expand_step_uses: the `/{name}` form of a `uses` value
expand_step_uses(v) ==
    IF v.arg \in {"/loc"} THEN [v EXCEPT !.arg = "./.github/includes/actions/loc"] ELSE v

\* expand_step_run
expand_step_run(v) == v

\* expand_step_includes_script: the step becomes a `run` step of the script's data
expand_step_includes_script(v) == expand_step_run([v EXCEPT !.type = "run"])

-----------------------------------------------------------------------------
(* __init__.py: expand_job_steps, one action per pass of `while steps`.     *)

\* a queue that takes the returned steps twice
InsertTwice(queue, steps_to_add) == steps_to_add \o steps_to_add \o queue

\* a queue that takes the returned steps at its back
InsertBack(queue, steps_to_add) == queue \o steps_to_add

\* `while steps_to_add: steps.insert(0, steps_to_add.pop(-1))`
RECURSIVE InsertFront(_, _)
InsertFront(queue, steps_to_add) ==
    IF steps_to_add = <<>> THEN queue
    ELSE InsertFront(<<steps_to_add[Len(steps_to_add)]>> \o queue,
                     SubSeq(steps_to_add, 1, Len(steps_to_add) - 1))

NoCall ==
    [called |-> FALSE, fp |-> "", step |-> Step(0, "", <<>>, "", <<>>),
     raised |-> PyNone, out |-> <<>>, current_if |-> PyNone,
     context |-> EmptyContext, expanded |-> <<>>, reached |-> FALSE]

HeadType == Head(steps)[2].type

\* st == 'run': new_steps.append(expand_step_run(step_filepath, step_data))
StepRun ==
    /\ pc = "loop" /\ steps # <<>> /\ HeadType = "run"
    /\ new_steps' = Append(new_steps, expand_step_run(Head(steps)[2]))
    /\ steps' = Tail(steps)
    /\ UNCHANGED <<docs, pc, err, job0, last, bi, call, jobVars>>

\* st == 'uses'
StepUses ==
    /\ pc = "loop" /\ steps # <<>> /\ HeadType = "uses"
    /\ new_steps' = Append(new_steps, expand_step_uses(Head(steps)[2]))
    /\ steps' = Tail(steps)
    /\ UNCHANGED <<docs, pc, err, job0, last, bi, call, jobVars>>

\* st == 'includes-script'
StepIncludesScript ==
    /\ pc = "loop" /\ steps # <<>> /\ HeadType = "includes-script"
    /\ new_steps' = Append(new_steps, expand_step_includes_script(Head(steps)[2]))
    /\ steps' = Tail(steps)
    /\ UNCHANGED <<docs, pc, err, job0, last, bi, call, jobVars>>

\* an `includes` branch that refuses a file including itself
StepIncludesOnce(r) ==
    /\ last' = [called |-> TRUE, fp |-> Head(steps)[1], step |-> Head(steps)[2],
                raised |-> r.raised, out |-> r.out, current_if |-> r.current_if,
                context |-> r.context, expanded |-> r.expanded, reached |-> r.reached]
    /\ IF r.raised # PyNone \/ Head(steps)[1] = Head(steps)[2].arg
       THEN /\ pc' = "error"
            /\ err' = IF r.raised # PyNone THEN r.raised.s ELSE "cycle"
            /\ steps' = Tail(steps)
       ELSE /\ steps' = InsertFront(Tail(steps), r.out)
            /\ UNCHANGED <<pc, err>>

\* the `includes` branch once expand_step_includes gave r
StepIncludesWith(r) ==
    /\ last' = [called |-> TRUE, fp |-> Head(steps)[1], step |-> Head(steps)[2],
                raised |-> r.raised, out |-> r.out, current_if |-> r.current_if,
                context |-> r.context, expanded |-> r.expanded, reached |-> r.reached]
    /\ IF r.raised # PyNone
       THEN /\ pc' = "error"
            /\ err' = r.raised.s
            /\ steps' = Tail(steps)
       ELSE /\ steps' = InsertFront(Tail(steps), r.out)
            /\ UNCHANGED <<pc, err>>

\* st == 'includes': the steps returned are put at the front of the queue, in
\* their order; an exception leaves expand_job_steps.
StepIncludes ==
    /\ pc = "loop" /\ steps # <<>> /\ HeadType = "includes"
    /\ StepIncludesWith(expand_step_includes(docs, Head(steps)[1], Head(steps)[2]))
    /\ UNCHANGED <<docs, new_steps, job0, bi, call, jobVars>>

\* the queue is empty: job_data['steps'] = new_steps; return job_data
StepsReturn ==
    /\ pc = "loop" /\ steps = <<>>
    /\ pc' = "done"
    /\ UNCHANGED <<docs, steps, new_steps, err, job0, last, bi, call, jobVars>>

-----------------------------------------------------------------------------
(* The jobs expand_job_steps is run on: a step list of up to MaxSteps      *)
(* steps and the two action documents A and B it may include. A declares   *)
(* the input `flag` with the default true and includes B from its second   *)
(* step; the name M is an action that does not exist.                      *)

MaxSteps == 2

InputsFlag == Lookup(<<PyStr("inputs"), PyStr("flag")>>)

\* the `if` of a step that includes, as yaml_load gives it
IncludeIfs ==
    { <<>>, <<PyFalse>>, <<Text(<<PyFalse>>)>>, <<Text(<<Value("v")>>)>>,
      <<Text(<<InputsFlag>>)>> }

\* the `if` of a step of an included action
StepIfs ==
    { <<>>, <<PyFalse>>, <<PyInt(1)>>, <<Text(<<Value("w")>>)>>,
      <<Text(<<InputsFlag>>)>>, <<InputsFlag>>,
      <<Text(<<Value("v"), OpTok("&&"), Value("w")>>)>>, <<Text(<<PyStr("x")>>)>> }

\* the `with` of the step that includes A
Withs ==
    { <<>>, <<PyItem("flag", PyFalse)>>, <<PyItem("flag", PyStr("x"))>>,
      <<PyItem("flag", Value("v"))>>, <<PyItem("zz", PyInt(1))>> }

DocA(cA1, cA2) ==
    [name |-> "docA",
     inputs |-> <<PyItem("flag", PyDict(<<PyItem("default", PyTrue)>>))>>,
     steps |-> << Step(11, "run", cA1, "echo a1", <<>>),
                  Step(12, "includes", cA2, "B", <<>>),
                  Step(13, "uses", <<>>, "/loc", <<>>) >>]

DocB(cB) ==
    [name |-> "docB",
     inputs |-> <<>>,
     steps |-> << Step(21, "run", cB, "echo b1", <<>>),
                  Step(22, "includes-script", <<>>, "b.sh", <<>>) >>]

TopSteps(cI, w) ==
    { Step(1, "run", <<>>, "echo t", <<>>),
      Step(2, "includes", cI, "A", w),
      Step(3, "includes", cI, "B", <<>>),
      Step(4, "includes", <<>>, "M", <<>>) }

NoBuildInputs ==
    [pc |-> "idle", decls |-> <<>>, with |-> <<>>, fp |-> "", todo |-> <<>>,
     st |-> [with_data |-> <<>>, inputs |-> <<>>, raised |-> PyNone], out |-> PyNone]

IdleInputs == bi = NoBuildInputs
\* no function is being called on its own
NoFunctionCall == [fn |-> "", args |-> <<>>, pc |-> "idle", out |-> <<>>]
IdleCall == call = NoFunctionCall
IdleJobs ==
    /\ wf = <<>> /\ jobs = <<>> /\ new_jobs = <<>> /\ jpc = "idle" /\ result = <<>>
    /\ lastj = <<>>
IdleSteps ==
    /\ docs = <<>> /\ steps = <<>> /\ new_steps = <<>> /\ pc = "idle" /\ err = ""
    /\ job0 = <<>> /\ last = NoCall

\* steps = list((current_filepath, s) for s in job_data['steps']); new_steps = []
Init ==
    /\ \E cI \in IncludeIfs, w \in Withs, cA1 \in StepIfs,
          cA2 \in {<<>>, <<Text(<<Value("w")>>)>>},
          cB \in {<<>>, <<Text(<<Value("v")>>)>>} :
          /\ docs = [n \in {"A", "B"} |-> IF n = "A" THEN DocA(cA1, cA2) ELSE DocB(cB)]
          /\ \E n \in 1..MaxSteps : \E l \in [1..n -> TopSteps(cI, w)] : job0 = l
    /\ steps = [i \in 1..Len(job0) |-> <<"top", job0[i]>>]
    /\ new_steps = <<>>
    /\ pc = "loop"
    /\ err = ""
    /\ last = NoCall
    /\ IdleInputs
    /\ IdleCall
    /\ IdleJobs

Next ==
    \/ StepRun
    \/ StepUses
    \/ StepIncludesScript
    \/ StepIncludes
    \/ StepsReturn

Spec == Init /\ [][Next]_vars

-----------------------------------------------------------------------------
(* __init__.py: build_inputs, one action for the copy of `with` and the    *)
(* resolving of its paths, one per pass of the loop over the declared      *)
(* inputs, one for the check of the items left over and the return.        *)
(* bi.pc is "start", "loop", "done" (returned bi.out) or "error" (raised   *)
(* bi.out).                                                                *)

\* with_data = copy.copy(include_yamldata.get('with', {})); resolve_paths
BuildInputsStarted(st) ==
    bi' = [bi EXCEPT !.st = st,
                     !.pc = IF st.raised # PyNone THEN "error" ELSE "loop",
                     !.out = st.raised]

BiStart ==
    /\ bi.pc = "start"
    /\ BuildInputsStarted(BuildInputsStart(bi.with, bi.fp))
    /\ UNCHANGED <<stepVars, jobVars, call>>

\* one pass of the loop over target_yamldata.get('inputs', {}).items()
BuildInputsPassed(st) ==
    bi' = [bi EXCEPT !.st = st,
                     !.todo = Tail(bi.todo),
                     !.pc = IF st.raised # PyNone THEN "error" ELSE "loop",
                     !.out = st.raised]

BiIter ==
    /\ bi.pc = "loop" /\ bi.todo # <<>>
    /\ BuildInputsPassed(BuildInputsIter(bi.st, Head(bi.todo)))
    /\ UNCHANGED <<stepVars, jobVars, call>>

\* the loop is over: `if with_data: raise KeyError(...)`, `return inputs`
BuildInputsEnded(out) ==
    bi' = [bi EXCEPT !.pc = IF IsRaise(out) THEN "error" ELSE "done", !.out = out]

BiReturn ==
    /\ bi.pc = "loop" /\ bi.todo = <<>>
    /\ BuildInputsEnded(BuildInputsEnd(bi.st))
    /\ UNCHANGED <<stepVars, jobVars, call>>

\* The calls of build_inputs: a target that declares up to MaxInputs inputs,
\* each in one of the forms a declaration takes, and a `with` that may hold
\* a value for each of five names, two of which no target declares.
MaxInputs == 2

InputNames == {"arg1", "arg2", "includes-a"}

\* in_info: nothing, a default, required, both, not required, and required
\* with an empty mapping as its default
InputInfos ==
    { PyNone,
      PyDict(<<PyItem("default", PyInt(1))>>),
      PyDict(<<PyItem("required", PyTrue)>>),
      PyDict(<<PyItem("default", PyInt(1)), PyItem("required", PyTrue)>>),
      PyDict(<<PyItem("required", PyFalse)>>),
      PyDict(<<PyItem("default", PyDict(<<>>)), PyItem("required", PyTrue)>>) }

\* the lists of declarations: no name twice
InputDecls ==
    UNION { { l \in [1..n -> { PyItem(name, info) : name \in InputNames, info \in InputInfos }] :
                \A i, j \in 1..n : i # j => l[i].s # l[j].s } : n \in 0..MaxInputs }

\* the values `with` may give each name; <<>> is the name left out
WithChoices ==
    [arg1 : { <<>>, <<PyItem("arg1", PyInt(3))>>,
              <<PyItem("arg1", PyDict(<<PyItem("includes", PyStr("/a"))>>))>> },
     arg2 : { <<>>, <<PyItem("arg2", PyInt(3))>> },
     arg3 : { <<>>, <<PyItem("arg3", PyInt(4))>> },
     arg4 : { <<>>, <<PyItem("arg4", PyStr("a"))>> },
     inc : { <<>>, <<PyItem("includes-a", PyStr("/p"))>> }]

WithOf(c) == c.arg1 \o c.arg2 \o c.arg3 \o c.arg4 \o c.inc

InitInputs ==
    /\ \E decls \in InputDecls, c \in WithChoices, fp \in {"", "top"} :
          bi = [pc |-> "start", decls |-> decls, with |-> WithOf(c), fp |-> fp,
                todo |-> decls,
                st |-> [with_data |-> <<>>, inputs |-> <<>>, raised |-> PyNone],
                out |-> PyNone]
    /\ IdleSteps
    /\ IdleJobs
    /\ IdleCall

NextInputs ==
    \/ BiStart
    \/ BiIter
    \/ BiReturn

SpecInputs == InitInputs /\ [][NextInputs]_vars

-----------------------------------------------------------------------------
(* Properties of expand_job_steps and expand_step_includes, under Spec.    *)

\* the ids of a list of steps
Ids(l) == [i \in 1..Len(l) |-> l[i].id]

\* The left-to-right depth-first flattening of a list q of <<filepath, step>>:
\* each step gives what its own expansion gives, an `includes` step the
\* flattening of the steps its target contributes, in the target's order.
RECURSIVE Flatten(_, _)
Flatten(ds, q) ==
    IF q = <<>> THEN <<>>
    ELSE (CASE Head(q)[2].type = "run" -> <<expand_step_run(Head(q)[2])>>
            [] Head(q)[2].type = "uses" -> <<expand_step_uses(Head(q)[2])>>
            [] Head(q)[2].type = "includes-script" ->
                  <<expand_step_includes_script(Head(q)[2])>>
            [] OTHER -> Flatten(ds, expand_step_includes(ds, Head(q)[1], Head(q)[2]).out))
         \o Flatten(ds, Tail(q))

\* C1: when expand_job_steps returns, the list it returns holds only `run` and
\* `uses` steps, and it is the left-to-right depth-first flattening of the
\* include tree of the job's steps: the steps an `includes` step contributes
\* stand at the place of that step, in the order of the target.
C1_DepthFirstFlattening ==
    pc = "done" =>
        /\ \A i \in 1..Len(new_steps) : new_steps[i].type \in {"run", "uses"}
        /\ new_steps = Flatten(docs, [i \in 1..Len(job0) |-> <<"top", job0[i]>>])

\* A returns between its own steps the steps of B it includes, before the
\* step that follows the include in the job.
C1_Witness ==
    /\ pc = "done"
    /\ Ids(job0) = <<2, 1>>
    /\ Ids(new_steps) = <<11, 21, 22, 13, 1>>

\* step_if of a step of the included document: the And of the two conditions,
\* simplified under the context
StepIf(current_if, step, context) ==
    simplify(StepAnd(current_if, get_if_exp(step)), context)

\* the steps a call returned that come from the step `id` of the target
Emitted(out, id) == { out[i][2] : i \in { j \in 1..Len(out) : out[j][2].id = id } }

\* one of the three outcomes for a step whose combined condition folds to f
StepOutcome(out, step, f) ==
    \/ InFalseNoneEmpty(f) /\ Emitted(out, step.id) = {}
    \/ IsTrue(f) /\ Emitted(out, step.id) = {[step EXCEPT !.if = <<>>]}
    \/ IsExpression(f) /\ Emitted(out, step.id) = {[step EXCEPT !.if = <<f>>]}

\* C2: for every step of an included action the call drops the step when the
\* And of the two conditions folds to false, null or the empty string, emits
\* it without `if` when it folds to true, emits it with the residual
\* expression otherwise, and never fails.
C2_ThreeOutcomesNoFailure ==
    last.reached =>
        /\ last.raised = PyNone
        /\ \A i \in 1..Len(last.expanded) :
              StepOutcome(last.out, last.expanded[i],
                          StepIf(last.current_if, last.expanded[i], last.context))

\* C3: a call of expand_step_includes on a step whose own `if` folds to false
\* contributes no step, whatever the target holds.
C3_FalseIncludeContributesNothing ==
    (last.called /\ get_if_exp(last.step) = PyFalse) => last.out = <<>>

\* the call went through the loop over the three steps of A, two of them
\* without a condition of their own, and returned
C3_Witness ==
    /\ last.called /\ get_if_exp(last.step) = PyFalse
    /\ last.reached /\ last.raised = PyNone
    /\ Len(last.expanded) = 3
    /\ last.expanded[2].if = <<>>
    /\ last.out = <<>>

-----------------------------------------------------------------------------
(* __init__.py: jobs. A job is [id, includes, with, needs, if, steps,      *)
(* expanded]: includes is the name of the workflow it includes, "" when    *)
(* the job has no `includes` key; needs is <<>> without a `needs` key and  *)
(* <<v>> otherwise, v a string or a list of strings; `if` is as for a      *)
(* step; expanded tells that expand_job_steps has returned this job. A     *)
(* workflow document is [name, has_inputs, inputs, jobs], jobs being the   *)
(* items <<name, job>> of its `jobs` mapping.                              *)

Job(id, includes, with, needs, if, job_steps) ==
    [id |-> id, includes |-> includes, with |-> with, needs |-> needs, if |-> if,
     steps |-> job_steps, expanded |-> FALSE]

\* get_needs(d): the list of names, a single string taken as a list of one
get_needs(d) ==
    IF d.needs = <<>> THEN <<>>
    ELSE IF d.needs[1].k = "str" THEN <<d.needs[1].s>>
    ELSE [i \in 1..Len(d.needs[1].args) |-> d.needs[1].args[i].s]

\* expand_job_steps as a function of the list of steps: the loop over the
\* queue q of <<filepath, step>>, acc being new_steps; [raised, steps]
RECURSIVE JobStepsLoop(_, _, _)
JobStepsInclude(ds, q, acc, r) ==
    IF r.raised # PyNone THEN [raised |-> r.raised, steps |-> <<>>]
    ELSE JobStepsLoop(ds, InsertFront(Tail(q), r.out), acc)

JobStepsLoop(ds, q, acc) ==
    IF q = <<>> THEN [raised |-> PyNone, steps |-> acc]
    ELSE CASE Head(q)[2].type = "run" ->
                 JobStepsLoop(ds, Tail(q), Append(acc, expand_step_run(Head(q)[2])))
           [] Head(q)[2].type = "uses" ->
                 JobStepsLoop(ds, Tail(q), Append(acc, expand_step_uses(Head(q)[2])))
           [] Head(q)[2].type = "includes-script" ->
                 JobStepsLoop(ds, Tail(q), Append(acc, expand_step_includes_script(Head(q)[2])))
           [] OTHER ->
                 JobStepsInclude(ds, q, acc, expand_step_includes(ds, Head(q)[1], Head(q)[2]))

expand_job_steps(ds, current_filepath, job_data) ==
    JobStepsLoop(ds, [i \in 1..Len(job_data.steps) |-> <<current_filepath, job_data.steps[i]>>],
                 <<>>)

\* get_workflow_data(current_workflow, name): whether a document is found
WorkflowFound(ws, name) == name \in DOMAIN ws

\* expand_input_expressions on a job of the included workflow
expand_job_expressions(job, context) ==
    [job EXCEPT !.if = IF job.if = <<>> THEN <<>> ELSE <<expand_value(job.if[1], context)>>,
                !.with = [i \in 1..Len(job.with) |->
                             PyItem(job.with[i].s, expand_value(job.with[i].args[1], context))],
                !.steps = [i \in 1..Len(job.steps) |->
                              expand_step_expressions(job.steps[i], context)]]

JobRaised(job) ==
    \/ job.if # <<>> /\ IsRaise(job.if[1])
    \/ \E i \in 1..Len(job.with) : IsRaise(job.with[i].args[1])
    \/ \E i \in 1..Len(job.steps) : StepRaised(job.steps[i])

\* context = dict(include_yamldata); context['inputs'] = input_data. The
\* `jobs` key is left out: no condition of the model names it.
WorkflowContext(doc, input_data) ==
    PyDict(<<PyItem("name", PyStr(doc.name)), PyItem("inputs", input_data)>>)

\* what expand_job_include gives: the exception, or the jobs of the included
\* workflow after expand_input_expressions and the context
JobIncludeRaised(e) == [raised |-> e, jobs |-> <<>>, context |-> EmptyContext]

JobIncludeExpanded(included, context) ==
    IF \E i \in 1..Len(included) : JobRaised(included[i][2])
    THEN JobIncludeRaised(PyRaise("TypeError"))
    ELSE [raised |-> PyNone, jobs |-> included, context |-> context]

JobIncludeBound(doc, context) ==
    JobIncludeExpanded([i \in 1..Len(doc.jobs) |->
                           <<doc.jobs[i][1], expand_job_expressions(doc.jobs[i][2], context)>>],
                       context)

\* after build_inputs: its KeyError becomes a SyntaxError; then
\* `del include_yamldata['inputs']`, a KeyError without an `inputs` key
JobIncludeInputs(doc, input_data) ==
    IF IsRaise(input_data) THEN JobIncludeRaised(Node("raise", "SyntaxError", 0, <<input_data>>))
    ELSE IF ~doc.has_inputs THEN JobIncludeRaised(PyRaise("KeyError"))
    ELSE JobIncludeBound(doc, WorkflowContext(doc, input_data))

expand_job_include(ws, current_filepath, include_job) ==
    IF ~WorkflowFound(ws, include_job.includes) THEN JobIncludeRaised(PyRaise("IOError"))
    ELSE JobIncludeInputs(ws[include_job.includes],
                          build_inputs(ws[include_job.includes].inputs, include_job.with,
                                       current_filepath))

-----------------------------------------------------------------------------
(* __init__.py: expand_workflow_jobs, one action per pass of `while jobs`   *)
(* and one for the building of the returned mapping.                       *)

\* new_needs as stored: `if len(new_needs) == 1: new_needs = new_needs.pop(0)`
NeedsValue(names) ==
    IF Len(names) = 1 THEN PyStr(names[1])
    ELSE PyList([i \in 1..Len(names) |-> PyStr(names[i])])

\* needs that keep the names of the included workflow as they are
NewNeedsUnprefixed(job_name, current_needs, included_job_data) ==
    current_needs \o get_needs(included_job_data)

\* new_needs = current_needs + [job_name+n for n in get_needs(included_job_data)]
NewNeeds(job_name, current_needs, included_job_data) ==
    current_needs \o [i \in 1..Len(get_needs(included_job_data)) |->
                         job_name \o get_needs(included_job_data)[i]]

\* `if new_needs: ... included_job_data['needs'] = new_needs`
WithNeeds(included_job_data, new_needs) ==
    IF new_needs = <<>> THEN included_job_data
    ELSE [included_job_data EXCEPT !.needs = <<NeedsValue(new_needs)>>]

\* The end of a pass of `while included_jobs`, new_if being simplified: an
\* Expression stores current_if in the job; False, None and '' drop the job;
\* anything else has to be True; then jobs.insert(0, ...). acc is
\* [queue, raised].
\* (the same with the included jobs put behind the outstanding jobs)
IncludedJobPutBack(acc, include_filepath, new_job_name, included_job_data, new_if, current_if) ==
    CASE IsRaise(new_if) -> [acc EXCEPT !.raised = new_if]
      [] IsExpression(new_if) ->
            [acc EXCEPT !.queue = acc.queue \o <<<<include_filepath, new_job_name,
                                      [included_job_data EXCEPT !.if = <<current_if>>]>>>>]
      [] InFalseNoneEmpty(new_if) -> acc
      [] ~IsTrue(new_if) -> [acc EXCEPT !.raised = PyRaise("AssertionError")]
      [] OTHER ->
            [acc EXCEPT !.queue = acc.queue \o <<<<include_filepath, new_job_name,
                                      [included_job_data EXCEPT !.if = <<>>]>>>>]

IncludedJobPut(acc, include_filepath, new_job_name, included_job_data, new_if, current_if) ==
    CASE IsRaise(new_if) -> [acc EXCEPT !.raised = new_if]
      [] IsExpression(new_if) ->
            [acc EXCEPT !.queue = <<<<include_filepath, new_job_name,
                                      [included_job_data EXCEPT !.if = <<current_if>>]>>>> \o acc.queue]
      [] InFalseNoneEmpty(new_if) -> acc
      [] ~IsTrue(new_if) -> [acc EXCEPT !.raised = PyRaise("AssertionError")]
      [] OTHER ->
            [acc EXCEPT !.queue = <<<<include_filepath, new_job_name,
                                      [included_job_data EXCEPT !.if = <<>>]>>>> \o acc.queue]

\* one pass of `while included_jobs` on the item <<name, data>> popped
IncludedJobIter(acc, job_name, current_needs, current_if, item, context, include_filepath) ==
    IncludedJobPut(acc, include_filepath, job_name \o item[1],
                   WithNeeds(item[2], NewNeeds(job_name, current_needs, item[2])),
                   simplify(StepAnd(current_if, get_if_exp(item[2])), context),
                   current_if)

\* `while included_jobs: included_jobs.pop(-1)`: from the last item to the first
RECURSIVE IncludedJobsLoop(_, _, _, _, _, _, _)
IncludedJobsLoop(acc, job_name, current_needs, current_if, todo, context, include_filepath) ==
    IF acc.raised # PyNone \/ todo = <<>> THEN acc
    ELSE IncludedJobsLoop(
            IncludedJobIter(acc, job_name, current_needs, current_if, todo[Len(todo)],
                            context, include_filepath),
            job_name, current_needs, current_if, SubSeq(todo, 1, Len(todo) - 1),
            context, include_filepath)

\* the pass of `while jobs` on an include job, from expand_job_include on:
\* [raised, queue, included, current_if, context]
JobPassRaised(e) ==
    [raised |-> e, queue |-> <<>>, included |-> <<>>, current_if |-> PyNone,
     context |-> EmptyContext]

JobPassLooped(acc, included, current_if, context) ==
    [raised |-> acc.raised, queue |-> acc.queue, included |-> included,
     current_if |-> current_if, context |-> context]

JobPassIncluded(queue, job_name, job_data, current_if, r) ==
    IF r.raised # PyNone THEN JobPassRaised(r.raised)
    ELSE JobPassLooped(IncludedJobsLoop([queue |-> queue, raised |-> PyNone], job_name,
                                        get_needs(job_data), current_if, r.jobs, r.context,
                                        job_data.includes),
                       r.jobs, current_if, r.context)

JobPassIf(ws, queue, current_filepath, job_name, job_data, current_if) ==
    IF IsRaise(current_if) THEN JobPassRaised(current_if)
    ELSE JobPassIncluded(queue, job_name, job_data, current_if,
                         expand_job_include(ws, current_filepath, job_data))

JobPass(ws, queue, current_filepath, job_name, job_data) ==
    JobPassIf(ws, queue, current_filepath, job_name, job_data, get_if_exp(job_data))

\* new_workflow['jobs'][job_name] = job_data, on the items m of the mapping
RECURSIVE SetItem(_, _, _)
SetItem(m, job_name, job_data) ==
    IF m = <<>> THEN <<<<job_name, job_data>>>>
    ELSE IF Head(m)[1] = job_name THEN <<<<job_name, job_data>>>> \o Tail(m)
    ELSE <<Head(m)>> \o SetItem(Tail(m), job_name, job_data)

RECURSIVE SetItems(_, _)
SetItems(m, l) == IF l = <<>> THEN m ELSE SetItems(SetItem(m, Head(l)[1], Head(l)[2]), Tail(l))

\* The mapping expand_workflow_jobs returns: the jobs of new_jobs are set in
\* the workflow's own `jobs` mapping, then the keys that are no name of
\* new_jobs are deleted.
FinalMapping(old, l) ==
    SelectSeq(SetItems(old, l), LAMBDA it : \E i \in 1..Len(l) : l[i][1] = it[1])

NoJobPass ==
    [called |-> FALSE, name |-> "", data |-> Job(0, "", <<>>, <<>>, <<>>, <<>>),
     raised |-> PyNone, before |-> <<>>, queue |-> <<>>, included |-> <<>>,
     current_if |-> PyNone, context |-> EmptyContext]

\* 'includes' not in job_data: expand_job_steps, then new_jobs.append
JobStepsWith(r) ==
    IF r.raised # PyNone
    THEN /\ jpc' = "error"
         /\ err' = r.raised.s
         /\ jobs' = Tail(jobs)
         /\ UNCHANGED new_jobs
    ELSE /\ new_jobs' = Append(new_jobs,
                               <<Head(jobs)[2],
                                 [Head(jobs)[3] EXCEPT !.steps = r.steps, !.expanded = TRUE]>>)
         /\ jobs' = Tail(jobs)
         /\ UNCHANGED <<jpc, err>>

JobSteps ==
    /\ jpc = "loop" /\ jobs # <<>> /\ Head(jobs)[3].includes = ""
    /\ JobStepsWith(expand_job_steps(docs, Head(jobs)[1], Head(jobs)[3]))
    /\ UNCHANGED <<docs, steps, new_steps, pc, job0, last, bi, call, wf, result, lastj>>

\* 'includes' in job_data: the jobs of the included workflow go to the front
\* of the queue under their new names
JobIncludeWith(r) ==
    /\ lastj' = [called |-> TRUE, name |-> Head(jobs)[2], data |-> Head(jobs)[3],
                 raised |-> r.raised, before |-> Tail(jobs), queue |-> r.queue,
                 included |-> r.included, current_if |-> r.current_if,
                 context |-> r.context]
    /\ IF r.raised # PyNone
       THEN /\ jpc' = "error"
            /\ err' = r.raised.s
            /\ jobs' = Tail(jobs)
       ELSE /\ jobs' = r.queue
            /\ UNCHANGED <<jpc, err>>

JobInclude ==
    /\ jpc = "loop" /\ jobs # <<>> /\ Head(jobs)[3].includes # ""
    /\ JobIncludeWith(JobPass(wf.docs, Tail(jobs), Head(jobs)[1], Head(jobs)[2], Head(jobs)[3]))
    /\ UNCHANGED <<docs, steps, new_steps, pc, job0, last, bi, call, wf, new_jobs, result>>

\* the queue is empty: the mapping is built and returned
JobsReturn ==
    /\ jpc = "loop" /\ jobs = <<>>
    /\ result' = FinalMapping(wf.jobs, new_jobs)
    /\ jpc' = "done"
    /\ UNCHANGED <<stepVars, bi, call, wf, jobs, new_jobs, lastj>>

\* The workflows expand_workflow_jobs is run on: up to MaxJobs top-level jobs
\* named Build, BuildA or Test, each a job with steps or an include of one
\* of the workflows W1 (jobs A and B, B needing A), W2 (job N including W1
\* and needing job P), W3 (no `inputs` key) and WM, which does not exist.
MaxJobs == 2

JobNames == {"Build", "BuildA", "Test"}

RunStep(id, script) == Step(id, "run", <<>>, script, <<>>)

\* the `if` of job A of W1
JobIfs == { <<>>, <<PyFalse>>, <<PyInt(1)>>, <<Text(<<Value("w")>>)>> }

\* the `needs` of job B of W1: the name A, as a string or as a list
JobNeeds == { PyStr("A"), PyList(<<PyStr("A")>>) }

W1(cA, nB) ==
    [name |-> "W1", has_inputs |-> TRUE,
     inputs |-> <<PyItem("flag", PyDict(<<PyItem("default", PyTrue)>>))>>,
     jobs |-> << <<"A", Job(31, "", <<>>, <<>>, cA, <<RunStep(31, "a")>>)>>,
                 <<"B", Job(32, "", <<>>, <<nB>>, <<>>, <<RunStep(32, "b")>>)>> >>]

W2 ==
    [name |-> "W2", has_inputs |-> TRUE, inputs |-> <<>>,
     jobs |-> << <<"N", Job(41, "W1", <<>>, <<PyStr("P")>>, <<>>, <<>>)>>,
                 <<"P", Job(42, "", <<>>, <<>>, <<>>, <<RunStep(42, "p")>>)>> >>]

W3 ==
    [name |-> "W3", has_inputs |-> FALSE, inputs |-> <<>>,
     jobs |-> << <<"Q", Job(51, "", <<>>, <<>>, <<>>, <<RunStep(51, "q")>>)>> >>]

Workflows(cA, nB) ==
    [n \in {"W1", "W2", "W3"} |->
        CASE n = "W1" -> W1(cA, nB) [] n = "W2" -> W2 [] OTHER -> W3]

\* the top-level jobs
TopJobs ==
    { Job(1, "", <<>>, needs, <<>>, <<RunStep(1, "t"), Step(2, "includes", <<>>, "A", <<>>)>>) :
         needs \in {<<>>, <<PyStr("Build")>>} }
    \cup { Job(3, "", <<>>, <<>>, <<>>, <<Step(4, "includes", <<>>, "M", <<>>)>>) }
    \cup { Job(5, "W1", <<>>, needs, if, <<>>) :
              needs \in {<<>>, <<PyStr("Test")>>},
              if \in {<<>>, <<PyFalse>>, <<Text(<<Value("v")>>)>>} }
    \cup { Job(6, "W1", <<PyItem("zz", PyInt(1))>>, <<>>, <<>>, <<>>) }
    \cup { Job(7, w, <<>>, <<>>, <<>>, <<>>) : w \in {"W2", "W3", "WM"} }

\* the `jobs` mappings: no name twice
TopMappings ==
    UNION { { l \in [1..n -> JobNames \X TopJobs] :
                \A i, j \in 1..n : i # j => l[i][1] # l[j][1] } : n \in 1..MaxJobs }

\* jobs = list((current_workflow, k, v) for k, v in ...['jobs'].items())
InitJobs ==
    /\ \E cA \in JobIfs, nB \in JobNeeds, top \in TopMappings :
          wf = [docs |-> Workflows(cA, nB), jobs |-> top]
    /\ jobs = [i \in 1..Len(wf.jobs) |-> <<"top", wf.jobs[i][1], wf.jobs[i][2]>>]
    /\ new_jobs = <<>>
    /\ jpc = "loop"
    /\ result = <<>>
    /\ lastj = NoJobPass
    /\ docs = [n \in {"A", "B"} |-> IF n = "A" THEN DocA(<<>>, <<>>) ELSE DocB(<<>>)]
    /\ steps = <<>> /\ new_steps = <<>> /\ pc = "idle" /\ err = ""
    /\ job0 = <<>> /\ last = NoCall
    /\ IdleInputs
    /\ IdleCall

NextJobs ==
    \/ JobSteps
    \/ JobInclude
    \/ JobsReturn

SpecJobs == InitJobs /\ [][NextJobs]_vars

-----------------------------------------------------------------------------
(* Properties of build_inputs, under SpecInputs.                           *)

BiEnded == bi.pc \in {"done", "error"}

\* the names `with` supplies and the names the target declares, in order
WithNames == [i \in 1..Len(bi.with) |-> bi.with[i].s]
DeclNames == [i \in 1..Len(bi.decls) |-> bi.decls[i].s]
Supplied(name) == \E i \in 1..Len(bi.with) : bi.with[i].s = name
Declared(name) == \E i \in 1..Len(bi.decls) : bi.decls[i].s = name

\* the declaration d is marked required, has no `default`, and `with` gives
\* its name no value
RequiredAndMissing(d) ==
    /\ d.args[1].k = "dict"
    /\ \E i \in 1..Len(d.args[1].args) :
          d.args[1].args[i].s = "required" /\ d.args[1].args[i].args[1] = PyTrue
    /\ \A i \in 1..Len(d.args[1].args) : d.args[1].args[i].s # "default"
    /\ ~Supplied(d.s)

SomeRequiredAndMissing == \E i \in 1..Len(bi.decls) : RequiredAndMissing(bi.decls[i])

MissingRaised == bi.pc = "error" /\ bi.out.s = "missing required argument"
UnusedRaised == bi.pc = "error" /\ bi.out.s = "unused extra arguments"

\* the names `with` supplies that the target does not declare, in order
Undeclared == SelectSeq(WithNames, LAMBDA name : ~Declared(name))

ItemValue(items, key) == items[CHOOSE i \in 1..Len(items) : items[i].s = key].args[1]

HasDefault(d) ==
    /\ d.args[1].k = "dict"
    /\ \E i \in 1..Len(d.args[1].args) : d.args[1].args[i].s = "default"

\* the binding has exactly the declared names as its keys
KeysAreDeclared == [i \in 1..Len(bi.out.args) |-> bi.out.args[i].s] = DeclNames

\* C6 as stated: on success the binding has exactly the declared names as
\* keys, each bound to the value `with` supplies, else to the declared default.
C6_WithElseDefault ==
    bi.pc = "done" =>
        /\ KeysAreDeclared
        /\ \A i \in 1..Len(bi.decls) :
              \/ /\ Supplied(bi.decls[i].s)
                 /\ bi.out.args[i].args[1] = ItemValue(bi.with, bi.decls[i].s)
              \/ /\ ~Supplied(bi.decls[i].s)
                 /\ HasDefault(bi.decls[i])
                 /\ bi.out.args[i].args[1] = ItemValue(bi.decls[i].args[1].args, "default")

\* the value `with` gives under key, as build_inputs binds it: with a current
\* file, a string under a key that starts with `includes` has become the path
\* of that file, one level down in a mapping too
RECURSIVE PathsResolved(_, _, _)
PathsResolved(fp, key, v) ==
    IF fp = "" THEN v
    ELSE IF v.k = "dict"
    THEN PyDict([i \in 1..Len(v.args) |->
                    PyItem(v.args[i].s, PathsResolved(fp, v.args[i].s, v.args[i].args[1]))])
    ELSE IF key \in {"includes", "includes-a"} THEN FilePath(fp, v.s)
    ELSE v

\* C6: on success the binding has exactly the declared names as keys; a name
\* `with` supplies is bound to that value with its include paths resolved
\* against the current file, a name not supplied to the declared default, and
\* a name not supplied that declares no default to an empty mapping.
C6_BindingOfDeclaredNames ==
    bi.pc = "done" =>
        /\ KeysAreDeclared
        /\ \A i \in 1..Len(bi.decls) :
              bi.out.args[i].args[1] =
                 IF Supplied(bi.decls[i].s)
                 THEN PathsResolved(bi.fp, bi.decls[i].s, ItemValue(bi.with, bi.decls[i].s))
                 ELSE IF HasDefault(bi.decls[i])
                 THEN ItemValue(bi.decls[i].args[1].args, "default")
                 ELSE Marker

\* the target declares arg1 with a default and then arg2 as required, and
\* `with` supplies arg2 only: arg1 is bound to its default, arg2 to the value
C6_Witness ==
    /\ bi.pc = "done"
    /\ DeclNames = <<"arg1", "arg2">>
    /\ HasDefault(bi.decls[1]) /\ ~Supplied("arg1")
    /\ ~HasDefault(bi.decls[2]) /\ Supplied("arg2")
    /\ bi.out = PyDict(<<PyItem("arg1", PyInt(1)), PyItem("arg2", PyInt(3))>>)

-----------------------------------------------------------------------------
(* Properties of expand_workflow_jobs, under SpecJobs.                     *)

\* the jobs the last include pass put at the front of the queue
Inserted == SubSeq(lastj.queue, 1, Len(lastj.queue) - Len(lastj.before))

IncludePassed == lastj.called /\ lastj.raised = PyNone

\* the entry e of the queue is the job `it` of the included workflow under
\* the name of the including job followed by its own
Renamed(e, it) == e[2] = lastj.name \o it[1] /\ e[3].id = it[2].id

Keys(m) == { m[i][1] : i \in 1..Len(m) }

\* C7: every job an included workflow contributes is emitted under the name
\* of the including job followed by its own name, and the names of all the
\* jobs produced are pairwise distinct, so that the returned mapping holds
\* every one of them.
C7_PrefixedAndDistinct ==
    /\ IncludePassed =>
          \A i \in 1..Len(Inserted) :
             \E j \in 1..Len(lastj.included) : Renamed(Inserted[i], lastj.included[j])
    /\ jpc = "done" =>
          /\ \A i, j \in 1..Len(new_jobs) : i # j => new_jobs[i][1] # new_jobs[j][1]
          /\ Len(result) = Len(new_jobs)

\* the names a list of strings holds
Names(l) == { l[i] : i \in 1..Len(l) }

\* the needs of the including job and, prefixed, those of the included job
UnitedNeeds(it) ==
    get_needs(lastj.data) \o
    [i \in 1..Len(get_needs(it[2])) |-> lastj.name \o get_needs(it[2])[i]]

\* C8 as stated: each job an included workflow contributes has a `needs` list
\* that holds the needs of the including job and its own needs prefixed with
\* the name of the including job (BuildB.needs == ["BuildA"]).
C8_NeedsIsTheList ==
    IncludePassed =>
        \A i \in 1..Len(Inserted) : \A j \in 1..Len(lastj.included) :
           (Renamed(Inserted[i], lastj.included[j]) /\ UnitedNeeds(lastj.included[j]) # <<>>) =>
              /\ Inserted[i][3].needs # <<>>
              /\ Inserted[i][3].needs[1].k = "list"
              /\ Names(get_needs(Inserted[i][3])) = Names(UnitedNeeds(lastj.included[j]))

\* C8: the needs of each job an included workflow contributes, read with
\* get_needs, are the needs of the including job followed by its own needs
\* prefixed with the name of the including job; they are stored as a bare
\* string when there is one name, as a list when there are more, and the
\* `needs` key is left as it was when there is none.
C8_NeedsConcatenated ==
    IncludePassed =>
        \A i \in 1..Len(Inserted) : \A j \in 1..Len(lastj.included) :
           Renamed(Inserted[i], lastj.included[j]) =>
              /\ get_needs(Inserted[i][3]) = UnitedNeeds(lastj.included[j])
              /\ Len(UnitedNeeds(lastj.included[j])) = 0 =>
                    Inserted[i][3].needs = lastj.included[j][2].needs
              /\ Len(UnitedNeeds(lastj.included[j])) = 1 =>
                    Inserted[i][3].needs = <<PyStr(UnitedNeeds(lastj.included[j])[1])>>
              /\ Len(UnitedNeeds(lastj.included[j])) > 1 =>
                    /\ Inserted[i][3].needs # <<>>
                    /\ Inserted[i][3].needs[1].k = "list"

\* Build, which needs Test, includes W1: BuildA needs Test, and BuildB needs
\* Test and BuildA
C8_Witness ==
    /\ IncludePassed
    /\ lastj.name = "Build"
    /\ get_needs(lastj.data) = <<"Test">>
    /\ Len(Inserted) = 2
    /\ Inserted[1][2] = "BuildA" /\ Inserted[1][3].needs = <<PyStr("Test")>>
    /\ Inserted[2][2] = "BuildB" /\ get_needs(Inserted[2][3]) = <<"Test", "BuildA">>

\* some job of the mapping m needs a name that is no key of m
Dangling(m) ==
    \E i \in 1..Len(m) : \E n \in 1..Len(get_needs(m[i][2])) :
       get_needs(m[i][2])[n] \notin Keys(m)

\* C9: in the mapping expand_workflow_jobs returns, every name in a job's
\* `needs` is a key of the mapping.
C9_NeedsAreKeys ==
    jpc = "done" =>
        \A i \in 1..Len(result) : Names(get_needs(result[i][2])) \subseteq Keys(result)

\* C10: when the expanded jobs hold a `needs` that names no job of the final
\* mapping, the expansion ends with the DanglingDependency error, and no
\* job's steps have been expanded by then.
C10_DanglingIsFatal ==
    (jobs = <<>> /\ jpc # "loop" /\ Dangling(FinalMapping(wf.jobs, new_jobs))) =>
        /\ jpc = "error"
        /\ err = "DanglingDependency"
        /\ \A i \in 1..Len(new_jobs) : ~new_jobs[i][2].expanded

\* the condition of the including job joined to that of the job `it` of the
\* included workflow, folded against the context of the include
CombinedIf(it) == simplify(StepAnd(lastj.current_if, get_if_exp(it[2])), lastj.context)

\* the job `it` under the folded condition f: dropped, put without `if`, or
\* put with f as its `if`
JobOutcome(it, f) ==
    IF IsExpression(f)
    THEN \E i \in 1..Len(Inserted) : Renamed(Inserted[i], it) /\ Inserted[i][3].if = <<f>>
    ELSE IF InFalseNoneEmpty(f)
    THEN \A i \in 1..Len(Inserted) : ~Renamed(Inserted[i], it)
    ELSE IsTrue(f) =>
            \E i \in 1..Len(Inserted) : Renamed(Inserted[i], it) /\ Inserted[i][3].if = <<>>

\* C11: the condition of an included job is the conjunction of the including
\* job's `if` and its own `if`: the job is dropped when the conjunction folds
\* to false, null or the empty string, is put without an `if` when it folds to
\* true, and otherwise is put with the residual of the conjunction as its
\* `if`, so that its own symbolic condition is kept.
C11_JobConditionCombined ==
    IncludePassed =>
        \A j \in 1..Len(lastj.included) :
           JobOutcome(lastj.included[j], CombinedIf(lastj.included[j]))

\* where the job with the id n stands in the included workflow
IncludedPos(n) == CHOOSE j \in 1..Len(lastj.included) : lastj.included[j][2].id = n

\* the jobs the pass inserted are jobs of the included workflow, in its order
InsertedInOrder ==
    /\ \A i \in 1..Len(Inserted) :
          \E j \in 1..Len(lastj.included) : Renamed(Inserted[i], lastj.included[j])
    /\ \A i, k \in 1..Len(Inserted) :
          i < k => IncludedPos(Inserted[i][3].id) < IncludedPos(Inserted[k][3].id)

\* a pass on an include job leaves the jobs it found in front of the
\* outstanding jobs, which keep their order
IncludeInFront ==
    (jobs # <<>> /\ Head(jobs)[3].includes # "" /\ jpc' = "loop") =>
        /\ jobs' = Inserted' \o Tail(jobs)
        /\ InsertedInOrder'
        /\ new_jobs' = new_jobs

\* a job gets its steps expanded only when it is the head of the queue and
\* has no `includes`
StepsWithoutIncludes ==
    new_jobs' # new_jobs =>
        /\ jobs # <<>> /\ Head(jobs)[3].includes = ""
        /\ jobs' = Tail(jobs)
        /\ Len(new_jobs') = Len(new_jobs) + 1
        /\ new_jobs'[Len(new_jobs')][1] = Head(jobs)[2]
        /\ new_jobs'[Len(new_jobs')][2].id = Head(jobs)[3].id

\* every job of the mapping m has expanded steps and no `includes`
AllResolved(m) == \A i \in 1..Len(m) : m[i][2].includes = "" /\ m[i][2].expanded

\* C12: expand_job_steps is applied only to a job without `includes`; the
\* jobs an include yields are put, in their order, in front of the jobs still
\* outstanding, so that they are processed before them; and every job of the
\* mapping expand_workflow_jobs returns has expanded steps and no `includes`.
C12_IncludesBeforeSteps ==
    /\ [][StepsWithoutIncludes /\ IncludeInFront]_vars
    /\ [](AllResolved(new_jobs) /\ (jpc = "done" => AllResolved(result)))

\* Build includes W2, whose job N includes W1: the jobs of W1 are done before
\* job P of W2, and both before the outstanding job Test
C12_Witness ==
    /\ jpc = "done"
    /\ [i \in 1..Len(new_jobs) |-> new_jobs[i][1]] = <<"BuildNA", "BuildNB", "BuildP", "Test">>
    /\ AllResolved(result)
    /\ Len(result) = 4

\* the include job of the last pass names a workflow that exists and has no
\* `inputs` key, and passes no `with`
NoInputsInclude ==
    /\ lastj.called
    /\ WorkflowFound(wf.docs, lastj.data.includes)
    /\ ~wf.docs[lastj.data.includes].has_inputs
    /\ lastj.data.with = <<>>

\* C13: a job that includes a workflow without an `inputs` key and passes no
\* `with` is expanded without an error into the jobs of that workflow.
C13_NoInputsWorkflowExpands ==
    NoInputsInclude =>
        /\ lastj.raised = PyNone
        /\ Len(Inserted) = Len(wf.docs[lastj.data.includes].jobs)

-----------------------------------------------------------------------------
(* The function classes of expressions.py, each called on its own: the     *)
(* call holds the class, the operands and, once made, the value returned.  *)

MaxOperands == 2

\* The operands: the constants, strings, numbers, names and lookups, and
\* the Function objects eq(a, 'x') (two objects), success() and
\* hashFiles('x').
Operands ==
    { PyTrue, PyFalse, PyNone, PyStr(""), PyStr("a"), PyStr("Hello world"), PyStr("lo"),
      PyStr("Ho"), PyInt(0), PyInt(1), Value("a"), Value("b"),
      Lookup(<<PyStr("a"), PyStr("b")>>),
      FunctionObj("eq", 1, <<Value("a"), PyStr("x")>>),
      FunctionObj("eq", 2, <<Value("a"), PyStr("x")>>),
      FunctionObj("success", 3, <<>>),
      FunctionObj("hashFiles", 4, <<PyStr("x")>>) }

OperandLists == UNION { [1..n -> Operands] : n \in 0..MaxOperands }

VarArgsClasses == {"AndF", "OrF"}
BinClasses == {"EqF", "NotEqF", "ContainsF", "StartsWithF", "EndsWithF"}

InitAlgebra ==
    /\ \E fn \in VarArgsClasses \cup BinClasses :
       \E args \in OperandLists :
          /\ fn \in BinClasses => Len(args) = 2
          /\ call = [fn |-> fn, args |-> args, pc |-> "call", out |-> <<>>]
    /\ IdleSteps
    /\ IdleInputs
    /\ IdleJobs

Returned(v) == call' = [call EXCEPT !.pc = "done", !.out = v]

CallAndF ==
    /\ call.pc = "call" /\ call.fn = "AndF"
    /\ Returned(AndF(call.args))
    /\ UNCHANGED <<stepVars, bi, jobVars>>

CallOrF ==
    /\ call.pc = "call" /\ call.fn = "OrF"
    /\ Returned(OrF(call.args))
    /\ UNCHANGED <<stepVars, bi, jobVars>>

CallEqF ==
    /\ call.pc = "call" /\ call.fn = "EqF"
    /\ Returned(EqF(call.args[1], call.args[2]))
    /\ UNCHANGED <<stepVars, bi, jobVars>>

CallNotEqF ==
    /\ call.pc = "call" /\ call.fn = "NotEqF"
    /\ Returned(NotEqF(call.args[1], call.args[2]))
    /\ UNCHANGED <<stepVars, bi, jobVars>>

CallContainsF ==
    /\ call.pc = "call" /\ call.fn = "ContainsF"
    /\ Returned(ContainsF(call.args[1], call.args[2]))
    /\ UNCHANGED <<stepVars, bi, jobVars>>

CallStartsWithF ==
    /\ call.pc = "call" /\ call.fn = "StartsWithF"
    /\ Returned(StartsWithF(call.args[1], call.args[2]))
    /\ UNCHANGED <<stepVars, bi, jobVars>>

CallEndsWithF ==
    /\ call.pc = "call" /\ call.fn = "EndsWithF"
    /\ Returned(EndsWithF(call.args[1], call.args[2]))
    /\ UNCHANGED <<stepVars, bi, jobVars>>

NextAlgebra ==
    \/ CallAndF
    \/ CallOrF
    \/ CallEqF
    \/ CallNotEqF
    \/ CallContainsF
    \/ CallStartsWithF
    \/ CallEndsWithF

SpecAlgebra == InitAlgebra /\ [][NextAlgebra]_vars

-----------------------------------------------------------------------------
(* Properties of the function classes, under SpecAlgebra.                  *)

CallDone(fn) == call.pc = "done" /\ call.fn = fn

\* v without the identity of the object it is
Structure(v) == IF IsFunction(v) THEN [v EXCEPT !.n = 0] ELSE v

SameOperand(a, b) == Structure(a) = Structure(b)

\* false, null or the empty string
IsFalsy(v) == v \in {PyFalse, PyNone, PyStr("")}

\* the operands l without those equal to the constant skip and without the
\* second and later occurrences of an operand
RECURSIVE Remainder(_, _, _)
Remainder(l, skip, kept) ==
    IF l = <<>> THEN kept
    ELSE IF Head(l) = skip \/ (\E i \in 1..Len(kept) : SameOperand(kept[i], Head(l)))
         THEN Remainder(Tail(l), skip, kept)
         ELSE Remainder(Tail(l), skip, Append(kept, Head(l)))

\* what is left of the reduction: the constant, the one operand, or the
\* conjunction or disjunction of the operands left
Reduced(name, rest, none) ==
    IF rest = <<>> THEN none
    ELSE IF Len(rest) = 1 THEN rest[1]
    ELSE FunctionObj(name, 0, rest)

AndReduction(args) ==
    IF \E i \in 1..Len(args) : IsFalsy(args[i]) THEN PyFalse
    ELSE Reduced("and", Remainder(args, PyTrue, <<>>), PyTrue)

OrReduction(args) ==
    IF \E i \in 1..Len(args) : args[i] = PyTrue THEN PyTrue
    ELSE Reduced("or", Remainder(SelectSeq(args, LAMBDA a : ~IsFalsy(a)), PyFalse, <<>>),
                 PyFalse)

\* C14: AndF returns false if an operand is false, null or the empty string;
\* otherwise, with the operands equal to true and the duplicate operands
\* dropped, it returns true if nothing is left, the operand if one is left and
\* the conjunction of those left otherwise; OrF is the dual.
C14_AndOrReduction ==
    /\ CallDone("AndF") => SameOperand(call.out, AndReduction(call.args))
    /\ CallDone("OrF") => SameOperand(call.out, OrReduction(call.args))

\* the objects EqF and NotEqF are called on
EqClass == call.fn \in {"EqF", "NotEqF"}
EqCalled == call.pc = "done" /\ EqClass

BothConcrete == ~IsExpression(call.args[1]) /\ ~IsExpression(call.args[2])
BothVarsAndEqual ==
    IsVar(call.args[1]) /\ IsVar(call.args[2]) /\ PyEq(call.args[1], call.args[2])

\* the call is kept: an object of the class on the two operands
KeptSymbolic(name) == IsFunction(call.out) /\ call.out.k = name /\ call.out.args = call.args

EqName == IF call.fn = "EqF" THEN "eq" ELSE "neq"

\* C16 as stated: Eq and NotEq fold to a boolean when both operands are
\* concrete, and stay an Eq or NotEq object whenever an operand is a Value, a
\* Lookup or another expression.
C16_FoldOnlyConcrete ==
    EqCalled =>
        IF BothConcrete THEN call.out.k = "bool" ELSE KeptSymbolic(EqName)

\* C16: Eq and NotEq fold to the boolean of the comparison when both operands
\* are concrete; when both are names or lookups that are equal, Eq folds to
\* true and NotEq to false; in every other case the Eq or NotEq object on the
\* two operands is returned.
C16_FoldConcreteOrSameVar ==
    EqCalled =>
        IF BothConcrete
        THEN call.out = PyBool(PyEq(call.args[1], call.args[2]) <=> (call.fn = "EqF"))
        ELSE IF BothVarsAndEqual
        THEN call.out = PyBool(call.fn = "EqF")
        ELSE KeptSymbolic(EqName)

\* EqF on the name a and the name a has returned True
C16_Witness ==
    /\ CallDone("EqF")
    /\ call.args = <<Value("a"), Value("a")>>
    /\ call.out = PyTrue

\* the functions on two strings
StrCalled == call.pc = "done" /\ call.fn \in {"ContainsF", "StartsWithF", "EndsWithF"}

StrName ==
    CASE call.fn = "ContainsF" -> "contains"
      [] call.fn = "StartsWithF" -> "startsWith"
      [] OTHER -> "endsWith"

\* C17: Contains, StartsWith and EndsWith of two concrete strings are computed
\* (a boolean), and the call on an operand that is an expression (a name, a
\* lookup or a function call such as hashFiles(...) or success()) is kept as
\* a call and not folded to a boolean.
C17_EagerOnlyOnStrings ==
    StrCalled =>
        /\ (call.args[1].k = "str" /\ call.args[2].k = "str") => call.out.k = "bool"
        /\ (IsExpression(call.args[1]) \/ IsExpression(call.args[2])) =>
              KeptSymbolic(StrName)

-----------------------------------------------------------------------------
(* var_eval called on its own: a Lookup and the context it is resolved in. *)

MaxSegments == 3

\* the segments of a Lookup: names, and the Var x
Segments == { PyStr("a"), PyStr("b"), PyStr("lo"), Value("x") }

LookupsOf == UNION { [1..n -> Segments] : n \in 2..MaxSegments }

\* what the context holds under the key a: a mapping, strings, a number,
\* null, a boolean and sequences
Levels ==
    { PyDict(<<PyItem("b", PyStr("lo"))>>), PyDict(<<>>), PyStr("Hello world"), PyStr("b"),
      PyInt(1), PyNone, PyTrue, PyList(<<PyStr("b")>>), PyList(<<>>) }

\* what the context holds under the key x, if it holds it
VarLevels == { <<>>, <<PyItem("x", PyStr("a"))>>, <<PyItem("x", PyInt(0))>> }

InitLookup ==
    /\ \E segs \in LookupsOf, level \in Levels, x \in VarLevels :
          call = [fn |-> "var_eval",
                  args |-> <<Lookup(segs), PyDict(<<PyItem("a", level)>> \o x)>>,
                  pc |-> "call", out |-> <<>>]
    /\ IdleSteps
    /\ IdleInputs
    /\ IdleJobs

CallVarEval ==
    /\ call.pc = "call" /\ call.fn = "var_eval"
    /\ Returned(var_eval(call.args[1], call.args[2]))
    /\ UNCHANGED <<stepVars, bi, jobVars>>

NextLookup == CallVarEval

SpecLookup == InitLookup /\ [][NextLookup]_vars

-----------------------------------------------------------------------------
(* Properties of var_eval, under SpecLookup.                               *)

\* the segments left when the walk through the mappings of ctx stops: at a
\* value that is no mapping, or at a mapping without the key
RECURSIVE Unresolved(_, _)
Unresolved(ctx, segs) ==
    IF segs = <<>> THEN <<>>
    ELSE IF ctx.k = "dict" /\ DictHas(ctx, Head(segs).s)
         THEN Unresolved(DictGet(ctx, Head(segs).s), Tail(segs))
         ELSE segs

\* the Lookup has plain names as segments, and one of them is absent at the
\* level reached
SegmentAbsent ==
    /\ CallDone("var_eval")
    /\ \A i \in 1..Len(call.args[1].args) : call.args[1].args[i].k = "str"
    /\ Unresolved(call.args[2], call.args[1].args) # <<>>

\* C15: resolving a Lookup of which a segment is absent at the level reached,
\* a mapping, a string, a number, null or a sequence, raises nothing and
\* returns the Lookup of the unresolved segments only.
C15_AbsentSegmentNeverRaises ==
    SegmentAbsent =>
        /\ ~IsRaise(call.out)
        /\ call.out = Lookup(Unresolved(call.args[2], call.args[1].args))

-----------------------------------------------------------------------------
(* from_literal and to_literal called in turn on the text of a literal: the *)
(* text is read, the value is written, and what was written is read again. *)

DigitRuns == UNION { [1..n -> {"0", "7"}] : n \in 1..MaxDigits }
Signs == { <<>>, <<"-">> }

\* the literals of the expression syntax, each with the form it has
Keywords == { <<Chars(w), "keyword">> : w \in {"null", "true", "false"} }
Integers10 == { <<sign \o run, "integer">> : sign \in Signs, run \in DigitRuns }
Decimals == { <<sign \o whole \o <<".">> \o part, "decimal">> :
                 sign \in Signs, whole \in DigitRuns, part \in DigitRuns }
Hexadecimals == { <<t, "hex">> : t \in HexTexts }
\* numbers with a signed exponent, written as in `-2.99-e2`
Exponentials == { <<sign \o <<d>> \o <<".">> \o part \o esign \o <<"e", e>>, "exponent">> :
                     sign \in Signs, d \in {"2", "7"}, part \in DigitRuns,
                     esign \in Signs, e \in {"2"} }
Quoted == { <<<<"'">> \o DoubleQuotes(c) \o <<"'">>, "string">> : c \in StringContents }

Literals == Keywords \cup Integers10 \cup Decimals \cup Hexadecimals \cup Exponentials \cup Quoted

InitLiteral ==
    /\ \E l \in Literals :
          call = [fn |-> "from_literal", args |-> l, pc |-> "call", out |-> <<>>]
    /\ IdleSteps
    /\ IdleInputs
    /\ IdleJobs

\* from_literal(text)
LiteralRead ==
    /\ call.pc = "call" /\ call.fn = "from_literal"
    /\ call' = [call EXCEPT !.pc = "read", !.out = <<from_literal_chars(call.args[1])>>]
    /\ UNCHANGED <<stepVars, bi, jobVars>>

\* to_literal of the value read, when reading raised nothing
LiteralWrite ==
    /\ call.pc = "read" /\ ~IsRaise(call.out[1])
    /\ call' = [call EXCEPT !.pc = "written",
                            !.out = Append(call.out, to_literal_chars(call.out[1]))]
    /\ UNCHANGED <<stepVars, bi, jobVars>>

\* from_literal of the text written
LiteralReadAgain ==
    /\ call.pc = "written"
    /\ call' = [call EXCEPT !.pc = "done",
                            !.out = Append(call.out, from_literal_chars(call.out[2]))]
    /\ UNCHANGED <<stepVars, bi, jobVars>>

NextLiteral ==
    \/ LiteralRead
    \/ LiteralWrite
    \/ LiteralReadAgain

SpecLiteral == InitLiteral /\ [][NextLiteral]_vars

-----------------------------------------------------------------------------
(* Properties of the literals, under SpecLiteral.                          *)

LiteralWasRead == call.fn = "from_literal" /\ call.pc # "call"

\* the value has the kind of the form of the literal
ValueOfForm(v, form) ==
    CASE form = "keyword" -> v \in {PyNone, PyTrue, PyFalse}
      [] form = "string" -> v.k = "str"
      [] OTHER -> v.k \in {"int", "float"}

\* C18: every literal (null, true, false, an integer, a decimal, a
\* hexadecimal number, a number with a signed exponent, a single-quoted
\* string) is read as a value of its form, and the text to_literal writes for
\* that value is read as the same value again.
C18_LiteralRoundTrip ==
    /\ LiteralWasRead =>
          /\ ~IsRaise(call.out[1])
          /\ ValueOfForm(call.out[1], call.args[2])
    /\ (call.fn = "from_literal" /\ call.pc = "done") => call.out[3] = call.out[1]

-----------------------------------------------------------------------------
(* tokenizer called on the text of a call of a named function.            *)

MaxArgs == 2

UpperChar(c) ==
    IF \E i \in 1..26 : LowerCase[i] = c
    THEN UpperCase[CHOOSE i \in 1..26 : LowerCase[i] = c]
    ELSE c

Upper(cs) == [i \in 1..Len(cs) |-> UpperChar(cs[i])]

\* the spellings of a function's name: as the table has it, in lower case and
\* in upper case
Spellings(name) == {Chars(name), Lower(Chars(name)), Upper(Chars(name))}

\* the numbers of operands the function takes
Arities(name) ==
    CASE name \in BinFunctions -> {2}
      [] name \in VarArgsFunctions -> 0..MaxArgs
      [] name \in EmptyFunctions -> {0}
      [] OTHER -> {1}

\* the texts of the operands: a name, a string, a number and a lookup
OperandTexts == {<<"a">>, <<"'", "x", "'">>, <<"7">>, <<"b", ".", "c">>}

\* name(operand, operand, ...)
CallText(spelling, operands) ==
    spelling \o <<"(">> \o JoinWith(operands, <<",", " ">>) \o <<")">>

InitTokenizer ==
    /\ \E name \in NamedFunctions :
          \E spelling \in Spellings(name), n \in Arities(name) :
             \E operands \in [1..n -> OperandTexts] :
                call = [fn |-> "tokenizer", args |-> <<name, spelling, operands>>,
                        pc |-> "call", out |-> <<>>]
    /\ IdleSteps
    /\ IdleInputs
    /\ IdleJobs

\* tokenizer(text)
CallTokenizer ==
    /\ call.pc = "call" /\ call.fn = "tokenizer"
    /\ Returned(<<tokenizer_chars(CallText(call.args[2], call.args[3]))>>)
    /\ UNCHANGED <<stepVars, bi, jobVars>>

NextTokenizer == CallTokenizer

SpecTokenizer == InitTokenizer /\ [][NextTokenizer]_vars

-----------------------------------------------------------------------------
(* Properties of the tokenizer, under SpecTokenizer.                       *)

\* the operands as from_literal reads them
ParsedOperands(operands) == [i \in 1..Len(operands) |-> from_literal_chars(operands[i])]

\* C19: the name of every function of the table (contains, startsWith,
\* endsWith, toJSON, fromJSON, hashFiles, success, always, cancelled), in any
\* letter case, followed by a parenthesized, comma-separated list of as many
\* operands as the function takes, is parsed to the call of that function on
\* the parsed operands.
C19_NamedCallParses ==
    (call.fn = "tokenizer" /\ call.pc = "done") =>
        call.out[1] = CallTuple(call.args[1], ParsedOperands(call.args[3]))

-----------------------------------------------------------------------------
(* files.py: get_filepath and parse_remote_path. The strings are spelled.  *)

\* a LocalFilePath(repo_root, path), a RemoteFilePath(user, repo, ref, path),
\* or the exception raised where one was to be returned. LocalFilePath.__new__
\* makes a str path a pathlib.Path; pathcls is the class of the path.
LocalFilePath(repo_root, path) ==
    [cls |-> "LocalFilePath", repo_root |-> repo_root, user |-> <<>>, repo |-> <<>>,
     ref |-> <<>>, path |-> path, pathcls |-> "PosixPath"]
RemoteFilePath(user, repo, ref, path) ==
    [cls |-> "RemoteFilePath", repo_root |-> <<>>, user |-> user, repo |-> repo,
     ref |-> ref, path |-> path, pathcls |-> "str"]
NoFilePath(raised) ==
    [cls |-> raised, repo_root |-> <<>>, user |-> <<>>, repo |-> <<>>, ref |-> <<>>,
     path |-> <<>>, pathcls |-> ""]

\* c in s, s.count(c)
HasChar(s, c) == \E i \in 1..Len(s) : s[i] = c
CountChar(s, c) == Cardinality({ i \in 1..Len(s) : s[i] = c })
\* where c stands first in s
IndexOf(s, c) == CHOOSE i \in 1..Len(s) : s[i] = c /\ \A h \in 1..(i - 1) : s[h] # c

\* s.split(c, n)
RECURSIVE SplitMax(_, _, _)
SplitMax(s, c, n) ==
    IF n = 0 \/ ~HasChar(s, c) THEN <<s>>
    ELSE <<SubSeq(s, 1, IndexOf(s, c) - 1)>>
         \o SplitMax(SubSeq(s, IndexOf(s, c) + 1, Len(s)), c, n - 1)

\* `user, repo, path = repo_plus_path.split('/', 2)` and the return
RemoteOfParts(parts, ref) ==
    IF Len(parts) # 3 THEN NoFilePath("ValueError")
    ELSE RemoteFilePath(parts[1], parts[2], ref, parts[3])

\* parse_remote_path from `repo_plus_path, ref = action_name.split('@', 1)` on
ParseAtRef(parts) ==
    IF HasChar(parts[2], "@") THEN NoFilePath("AssertionError")
    ELSE RemoteOfParts(SplitMax(IF CountChar(parts[1], "/") = 1
                                THEN parts[1] \o <<"/">> ELSE parts[1], "/", 2),
                       parts[2])

parse_remote_path(action_name) ==
    IF HasPrefix(action_name, <<"d", "o", "c", "k", "e", "r", ":", "/", "/">>) THEN NoFilePath("AssertionError")
    ELSE ParseAtRef(SplitMax(IF HasChar(action_name, "@") THEN action_name
                             ELSE action_name \o <<"@", "m", "a", "i", "n">>, "@", 1))

\* pathlib: the parts of a path, without the empty ones and the `.` ones
PathParts(s) == SelectSeq(SplitMax(s, "/", Len(s)), LAMBDA part : part \notin {<<>>, <<".">>})

\* Path.resolve() on the parts of an absolute path, no part being a symbolic
\* link: `..` leaves the directory reached, and the root is its own parent
RECURSIVE Resolve(_, _)
Resolve(done, parts) ==
    IF parts = <<>> THEN done
    ELSE IF Head(parts) = <<".", ".">>
    THEN Resolve(SubSeq(done, 1, Len(done) - 1), Tail(parts))
    ELSE Resolve(Append(done, Head(parts)), Tail(parts))

\* repo_root / path: an absolute path stands for itself
PathJoin(repo_root, path) ==
    IF path # <<>> /\ Head(path) = "/" THEN PathParts(path)
    ELSE PathParts(repo_root) \o PathParts(path)

\* str() of the relative path with these parts
PathStr(parts) == IF parts = <<>> THEN <<".">> ELSE JoinWith(parts, <<"/">>)

\* `localpath.relative_to(current.repo_root)` and `current._replace(path=repopath)`
LocalOfParts(current, root, localpath) ==
    IF ~HasPrefix(localpath, root) THEN NoFilePath("ValueError")
    ELSE LocalFilePath(current.repo_root,
                       PathStr(SubSeq(localpath, Len(root) + 1, Len(localpath))))

\* the end of get_filepath: the local file, or the remote one
FilePathOf(current, filepath) ==
    IF HasPrefix(filepath, <<".", "/">>)
    THEN IF current.cls # "LocalFilePath" THEN NoFilePath("AssertionError")
         ELSE LocalOfParts(current, PathParts(current.repo_root),
                           Resolve(<<>>, PathJoin(current.repo_root,
                                                  SubSeq(filepath, 3, Len(filepath)))))
    ELSE parse_remote_path(filepath)

\* a rewrite that leaves the ref out of the name
RewriteRemoteNoRef(current, filepath) ==
    IF current.cls = "RemoteFilePath" /\ HasPrefix(filepath, <<".", "/">>)
    THEN current.user \o <<"/">> \o current.repo \o <<"/">>
         \o SubSeq(filepath, 3, Len(filepath))
    ELSE filepath

\* `# If new is local but current is remote, rewrite to a remote.`
RewriteRemote(current, filepath) ==
    IF current.cls = "RemoteFilePath" /\ HasPrefix(filepath, <<".", "/">>)
    THEN current.user \o <<"/">> \o current.repo \o <<"/">>
         \o SubSeq(filepath, 3, Len(filepath)) \o <<"@">> \o current.ref
    ELSE filepath

\* get_filepath after the `/` shorthand has been written out
GetFilePathFrom(current, filepath) ==
    IF HasPrefix(filepath, <<".", "/">>) /\ HasChar(filepath, "@")
    THEN NoFilePath("AssertionError")
    ELSE FilePathOf(current, RewriteRemote(current, filepath))

\* filetype=None
None == <<"None">>

\* a shorthand written out without the directory of the filetype
GetFilepathNoKind(current, filepath, filetype) ==
    IF HasPrefix(filepath, <<"/">>)
    THEN IF filetype = None THEN NoFilePath("AssertionError")
         ELSE GetFilePathFrom(current, <<".", "/", ".", "g", "i", "t", "h", "u", "b", "/", "i", "n", "c", "l", "u", "d", "e", "s", "/">> \o Tail(filepath))
    ELSE GetFilePathFrom(current, filepath)

get_filepath(current, filepath, filetype) ==
    IF HasPrefix(filepath, <<"/">>)
    THEN IF filetype = None THEN NoFilePath("AssertionError")
         ELSE GetFilePathFrom(current, <<".", "/", ".", "g", "i", "t", "h", "u", "b", "/", "i", "n", "c", "l", "u", "d", "e", "s", "/">> \o filetype \o <<"s", "/">> \o Tail(filepath))
    ELSE GetFilePathFrom(current, filepath)

-----------------------------------------------------------------------------
(* get_filepath called along a chain of includes: every call resolves a   *)
(* target against the file the call before it returned.                   *)

MaxDepth == 2

\* the files a chain starts in: a local one, and remote ones
StartFiles ==
    {LocalFilePath(<<"/", "r", "o", "o", "t">>, <<"a", "b", "c", ".", "y", "a", "m", "l">>)}
    \cup { RemoteFilePath(user, <<"r">>, ref, <<"a", "b", "c", ".", "y", "a", "m", "l">>) : user \in {<<"u">>, <<"w">>}, ref \in {<<"v">>, <<"a", "/", "b">>} }

\* the targets of the includes, and the types of file
Targets ==
    {<<".", "/", "a">>,
     <<".", "/", "a", "/", ".", ".", "/", "b">>,
     <<".", "/", ".", ".", "/", "a">>,
     <<"/", "a">>,
     <<"/", "a", "/", "b">>,
     <<".", "/", "a", "@", "v">>,
     <<"u", "/", "r", "/", "a", "@", "v">>,
     <<"w", "/", "q">>,
     <<"u">>,
     <<".", "/">>}
Filetypes == {None, <<"a", "c", "t", "i", "o", "n">>, <<"w", "o", "r", "k", "f", "l", "o", "w">>}

InitFiles ==
    /\ \E start \in StartFiles :
          call = [fn |-> "get_filepath", args |-> <<>>, pc |-> "call", out |-> <<start>>]
    /\ IdleSteps
    /\ IdleInputs
    /\ IdleJobs

\* the file the chain has reached
Current == call.out[Len(call.out)]

\* get_filepath(current, filepath, filetype) for the next include of the chain
CallGetFilepath ==
    /\ call.fn = "get_filepath"
    /\ Len(call.args) < MaxDepth
    /\ Current.cls \in {"LocalFilePath", "RemoteFilePath"}
    /\ \E filepath \in Targets, filetype \in Filetypes :
          call' = [call EXCEPT !.args = Append(@, <<filepath, filetype>>),
                               !.out = Append(@, get_filepath(Current, filepath, filetype))]
    /\ UNCHANGED <<stepVars, bi, jobVars>>

NextFiles == CallGetFilepath

SpecFiles == InitFiles /\ [][NextFiles]_vars

-----------------------------------------------------------------------------
(* Properties of get_filepath, under SpecFiles.                             *)

\* the target is a `./` name or the `/` shorthand
IsRelative(filepath) == HasPrefix(filepath, <<".", "/">>) \/ HasPrefix(filepath, <<"/">>)

\* the path a relative target names in its repository
RelativePath(filepath, filetype) ==
    IF HasPrefix(filepath, <<"/">>)
    THEN SubSeq(<<".", "/", ".", "g", "i", "t", "h", "u", "b", "/", "i", "n", "c", "l", "u", "d", "e", "s", "/">>, 3, Len(<<".", "/", ".", "g", "i", "t", "h", "u", "b", "/", "i", "n", "c", "l", "u", "d", "e", "s", "/">>)) \o filetype \o <<"s", "/">> \o Tail(filepath)
    ELSE SubSeq(filepath, 3, Len(filepath))

\* the asserts of get_filepath on a relative target: the shorthand needs a
\* type of file, and the name has no `@`
Asserted(filepath, filetype) ==
    \/ HasPrefix(filepath, <<"/">>) /\ filetype = None
    \/ HasChar(filepath, "@")

\* what get_filepath returned for `filepath` from the remote file `current`
RemoteResolved(current, filepath, filetype, fp) ==
    /\ fp.cls # "LocalFilePath"
    /\ IsRelative(filepath) =>
          IF Asserted(filepath, filetype) THEN fp.cls = "AssertionError"
          ELSE fp = RemoteFilePath(current.user, current.repo, current.ref,
                                   RelativePath(filepath, filetype))

\* C20: from a remote current file get_filepath never returns a local file,
\* and a `./` target or a `/` shorthand resolves to the remote file of the same
\* user, repo and ref (the asserts on the name apart); so along a chain of
\* includes that starts in a remote file every file is remote.
C20_RemoteStaysRemote ==
    call.fn = "get_filepath" =>
        /\ \A i \in 1..Len(call.args) :
              call.out[i].cls = "RemoteFilePath" =>
                  RemoteResolved(call.out[i], call.args[i][1], call.args[i][2], call.out[i + 1])
        /\ call.out[1].cls = "RemoteFilePath" =>
              \A i \in 1..Len(call.out) : call.out[i].cls # "LocalFilePath"

\* a chain from a remote file through two relative includes, a `/` shorthand
\* and a `./` name
C20_Witness ==
    /\ call.fn = "get_filepath"
    /\ call.out[1] = RemoteFilePath(<<"u">>, <<"r">>, <<"a", "/", "b">>, <<"a", "b", "c", ".", "y", "a", "m", "l">>)
    /\ call.args = <<<<<<"/", "a">>, <<"w", "o", "r", "k", "f", "l", "o", "w">>>>, <<<<".", "/", "a">>, None>>>>
    /\ call.out[3] = RemoteFilePath(<<"u">>, <<"r">>, <<"a", "/", "b">>, <<"a">>)


\* `.github/includes/<filetype>s/<rest>` for the shorthand `/<rest>`
IncludesPath(filepath, filetype) ==
    <<".", "g", "i", "t", "h", "u", "b", "/", "i", "n", "c", "l", "u", "d", "e", "s", "/">>
    \o filetype \o <<"s", "/">> \o Tail(filepath)

\* what get_filepath returned for the shorthand `filepath` from `current`
ShorthandResolved(current, filepath, filetype, fp) ==
    IF current.cls = "LocalFilePath"
    THEN fp = LocalFilePath(current.repo_root, IncludesPath(filepath, filetype))
    ELSE fp = RemoteFilePath(current.user, current.repo, current.ref,
                             IncludesPath(filepath, filetype))

\* C21: a target with a leading `/`, asked for as an action or as a workflow,
\* resolves to the path .github/includes/<filetype>s/<rest>: in the repository
\* of a local current file, and in the same user, repo and ref as a remote one.
C21_ShorthandPath ==
    call.fn = "get_filepath" =>
        \A i \in 1..Len(call.args) :
            (HasPrefix(call.args[i][1], <<"/">>) /\ call.args[i][2] # None) =>
                ShorthandResolved(call.out[i], call.args[i][1], call.args[i][2],
                                  call.out[i + 1])

\* the shorthand from a local file and then from the file that gave
C21_Witness ==
    /\ call.fn = "get_filepath"
    /\ Len(call.args) = 2
    /\ call.out[1].cls = "LocalFilePath"
    /\ call.args[1] = <<<<"/", "a", "/", "b">>, <<"a", "c", "t", "i", "o", "n">>>>
    /\ call.args[2] = <<<<"/", "a">>, <<"w", "o", "r", "k", "f", "l", "o", "w">>>>
    /\ call.out[3].path = IncludesPath(<<"/", "a">>, <<"w", "o", "r", "k", "f", "l", "o", "w">>)

-----------------------------------------------------------------------------
(* files.py: get_filepath_data and DOWNLOAD_CACHE; __init__.py:            *)
(* get_action_data and get_workflow_data.                                  *)

\* an exception that is returned as a value, not raised
PyError(what) == Node("error", what, 0, <<>>)

\* What the file system or the network gives when it is asked: the text of a
\* document, "fails" (no such file, URLError) or "raises" (any other
\* exception). The text is named by the document it holds.
Texts == {PyStr("action"), PyStr("workflow"), PyStr("script")}
Answers == Texts \cup {PyStr("fails"), PyStr("raises")}

\* DOWNLOAD_CACHE: the entries <<filepath, data>> in the order they were put
CacheHas(cache, filepath) == \E i \in 1..Len(cache) : cache[i][1] = filepath
CacheGet(cache, filepath) == cache[CHOOSE i \in 1..Len(cache) : cache[i][1] = filepath][2]

\* what get_filepath_data gets from outside for the answer given
Fetched(filepath, answer) ==
    CASE answer \in Texts -> answer
      [] answer = PyStr("raises") -> PyRaise("OSError")
      [] filepath.cls = "LocalFilePath" -> PyError("IOError")
      [] OTHER -> PyError("URLError")

\* a cache test that passes over the failures kept
NotInCacheOrFailed(cache, filepath) ==
    ~CacheHas(cache, filepath) \/ CacheGet(cache, filepath).k = "error"

\* `if filepath not in DOWNLOAD_CACHE:`
NotInCache(cache, filepath) == ~CacheHas(cache, filepath)

\* whether get_filepath_data(filepath) downloads
Downloads(cache, filepath) == filepath.cls = "RemoteFilePath" /\ NotInCache(cache, filepath)

\* get_filepath_data(filepath): what it returns or raises
get_filepath_data(cache, filepath, answer) ==
    IF filepath.cls = "LocalFilePath" \/ Downloads(cache, filepath)
    THEN Fetched(filepath, answer)
    ELSE CacheGet(cache, filepath)

\* DOWNLOAD_CACHE after get_filepath_data(filepath)
DownloadCache(cache, filepath, answer) ==
    IF Downloads(cache, filepath) /\ ~IsRaise(Fetched(filepath, answer))
    THEN Append(cache, <<filepath, Fetched(filepath, answer)>>)
    ELSE cache

ACTION_YAML_NAMES == <<<<"/", "a", "c", "t", "i", "o", "n", ".", "y", "m", "l">>, <<"/", "a", "c", "t", "i", "o", "n", ".", "y", "a", "m", "l">>>>
JOBS_YAML_NAMES == <<<<"/", "w", "o", "r", "k", "f", "l", "o", "w", ".", "y", "m", "l">>, <<"/", "w", "o", "r", "k", "f", "l", "o", "w", ".", "y", "a", "m", "l">>>>

YamlNames(fn) == IF fn = "get_action_data" THEN ACTION_YAML_NAMES ELSE JOBS_YAML_NAMES

\* `action_dirpath._replace(path=str(action_dirpath.path)+f)`: _replace does
\* not go through __new__, the path stays the str it is given
WithName(dirpath, f) == [dirpath EXCEPT !.path = @ \o f, !.pathcls = "str"]

\* a loop that goes on to the next name whatever it got
NeverBreaks(data) == FALSE

\* `if isinstance(data, str): break`
Breaks(data) == data.k = "str"

\* the characters of the model's paths in the order of their codes
CharCodes ==
    <<".", "/", "a", "b", "c", "d", "e", "f", "g", "h", "i", "j", "k", "l", "m",
      "n", "o", "p", "q", "r", "s", "t", "u", "v", "w", "x", "y", "z">>
CharCode(c) == CHOOSE i \in 1..Len(CharCodes) : CharCodes[i] = c

\* a < b for two strings
RECURSIVE StrLess(_, _)
StrLess(a, b) ==
    IF b = <<>> THEN FALSE
    ELSE IF a = <<>> THEN TRUE
    ELSE IF Head(a) = Head(b) THEN StrLess(Tail(a), Tail(b))
    ELSE CharCode(Head(a)) < CharCode(Head(b))

\* sorted(errors.items()) for the entries of one directory, which differ in
\* their paths
SortedErrors(errors) ==
    IF Len(errors) = 2 /\ StrLess(errors[2][1].path, errors[1][1].path)
    THEN <<errors[2], errors[1]>>
    ELSE errors

\* the IOError of the `else:` of the loop: the lines of its message after the first
DidNotFind(errors) == Node("raise", "IOError", 0, SortedErrors(errors))

\* yaml_load and the asserts on the document read
Loaded(fn, filepath, data) ==
    IF (fn = "get_action_data" /\ data = PyStr("action"))
       \/ (fn = "get_workflow_data" /\ data = PyStr("workflow"))
    THEN Node("document", data.s, 0, <<filepath>>)
    ELSE PyRaise("AssertionError")

-----------------------------------------------------------------------------
(* A run's loads of include targets, one after the other: get_action_data *)
(* and get_workflow_data, each call one action per pass of its loop.       *)

MaxLoads == 2

LoadCurrents == {LocalFilePath(<<"/", "r", "o", "o", "t">>, <<"a", "b", "c", ".", "y", "a", "m", "l">>), RemoteFilePath(<<"u">>, <<"r">>, <<"v">>, <<"a", "b", "c", ".", "y", "a", "m", "l">>)}
LoadNames == {<<".", "/", "d">>, <<"w", "/", "q", "/", "d", "@", "v">>}

\* the state of a run: the call under way (fn, dirpath, errors), the cache, and
\* what the run has seen so far: every download and every return of
\* get_filepath_data, and what the last call returned or raised
NoLoad(cache, downloads, fetched, loads, res) ==
    [errors |-> <<>>, cache |-> cache, downloads |-> downloads, fetched |-> fetched,
     loads |-> loads, result |-> res]

InitFetch ==
    /\ call = [fn |-> "", args |-> <<>>, pc |-> "run",
               out |-> NoLoad(<<>>, <<>>, <<>>, 0, PyNone)]
    /\ IdleSteps
    /\ IdleInputs
    /\ IdleJobs

\* the call of get_action_data or get_workflow_data up to its loop
LoadStarted(fn, dirpath) ==
    IF dirpath.cls \in {"LocalFilePath", "RemoteFilePath"}
    THEN call' = [call EXCEPT !.fn = fn, !.args = <<dirpath>>, !.pc = "loop",
                              !.out.errors = <<>>, !.out.result = PyNone]
    ELSE call' = [call EXCEPT !.fn = fn, !.args = <<>>, !.pc = "raised",
                              !.out.errors = <<>>, !.out.result = PyRaise(dirpath.cls)]

LoadStart ==
    /\ call.pc = "run" /\ call.out.loads < MaxLoads
    /\ \E fn \in {"get_action_data", "get_workflow_data"}, current \in LoadCurrents,
          name \in LoadNames :
          LoadStarted(fn, get_filepath(current, name,
                                       IF fn = "get_action_data" THEN <<"a", "c", "t", "i", "o", "n">> ELSE <<"w", "o", "r", "k", "f", "l", "o", "w">>))
    /\ UNCHANGED <<stepVars, bi, jobVars>>

\* one pass of `for f in ACTION_YAML_NAMES:` on filepath, with what
\* get_filepath_data gave
LoadTried(filepath, data, cache, downloaded) ==
    IF IsRaise(data)
    THEN call' = [call EXCEPT
                    !.pc = "raised", !.out.result = data,
                    !.out.downloads = IF downloaded THEN Append(@, filepath) ELSE @]
    ELSE call' = [call EXCEPT
                    !.pc = IF Breaks(data) THEN "found"
                           ELSE IF Len(call.out.errors) + 1 = Len(YamlNames(call.fn))
                           THEN "else" ELSE "loop",
                    !.out.errors = Append(@, <<filepath, data>>),
                    !.out.cache = cache,
                    !.out.downloads = IF downloaded THEN Append(@, filepath) ELSE @,
                    !.out.fetched = Append(@, <<filepath, data>>)]

LoadTryAt(filepath, answer) ==
    LoadTried(filepath,
              get_filepath_data(call.out.cache, filepath, answer),
              DownloadCache(call.out.cache, filepath, answer),
              Downloads(call.out.cache, filepath))

LoadTry ==
    /\ call.pc = "loop"
    /\ \E answer \in Answers :
          LoadTryAt(WithName(call.args[1], YamlNames(call.fn)[Len(call.out.errors) + 1]),
                    answer)
    /\ UNCHANGED <<stepVars, bi, jobVars>>

\* after `break`: the document is loaded and returned
LoadReturned(res) ==
    call' = [call EXCEPT !.pc = IF IsRaise(res) THEN "raised" ELSE "run",
                         !.out.loads = @ + 1,
                         !.out.result = res]

LoadReturn ==
    /\ call.pc = "found"
    /\ LoadReturned(Loaded(call.fn, call.out.errors[Len(call.out.errors)][1],
                           call.out.errors[Len(call.out.errors)][2]))
    /\ UNCHANGED <<stepVars, bi, jobVars>>

\* the `else:` of the loop
LoadRaise ==
    /\ call.pc = "else"
    /\ call' = [call EXCEPT !.pc = "raised", !.out.result = DidNotFind(call.out.errors)]
    /\ UNCHANGED <<stepVars, bi, jobVars>>

NextFetch ==
    \/ LoadStart
    \/ LoadTry
    \/ LoadReturn
    \/ LoadRaise

SpecFetch == InitFetch /\ [][NextFetch]_vars

-----------------------------------------------------------------------------
(* The loads of include targets.                                           *)

\* the attempts of the call under way are the names of the list in its order,
\* each under the directory of the target
TriedInOrder ==
    /\ Len(call.out.errors) <= Len(YamlNames(call.fn))
    /\ \A i \in 1..Len(call.out.errors) :
          call.out.errors[i][1] = WithName(call.args[1], YamlNames(call.fn)[i])

\* every attempt before the last one failed
EarlierFailed ==
    \A i \in 1..(Len(call.out.errors) - 1) : call.out.errors[i][2].k = "error"

\* the document returned is the one of the last attempt, which gave text
FirstFoundUsed ==
    call.out.result.k = "document" =>
        /\ call.out.errors # <<>>
        /\ call.out.errors[Len(call.out.errors)][2].k = "str"
        /\ call.out.result.s = call.out.errors[Len(call.out.errors)][2].s
        /\ call.out.result.args = <<call.out.errors[Len(call.out.errors)][1]>>

\* the IOError of a target not found lists every attempt, each with its failure
AllFailedListed ==
    (IsRaise(call.out.result) /\ call.out.result.s = "IOError") =>
        /\ Len(call.out.errors) = Len(YamlNames(call.fn))
        /\ \A i \in 1..Len(call.out.errors) : call.out.errors[i][2].k = "error"
        /\ Len(call.out.result.args) = Len(call.out.errors)
        /\ {call.out.result.args[i] : i \in 1..Len(call.out.result.args)}
              = {call.out.errors[i] : i \in 1..Len(call.out.errors)}

\* C22: loading an include target tries <dir>/action.yml and then
\* <dir>/action.yaml (workflow.yml and then workflow.yaml for a workflow); the
\* second is tried only if the fetch of the first failed, the first one fetched
\* is the one used, and if both fail the load raises one error that lists every
\* location tried with its failure.
C22_TriesBothNames ==
    call.fn \in {"get_action_data", "get_workflow_data"} =>
        /\ TriedInOrder
        /\ EarlierFailed
        /\ FirstFoundUsed
        /\ AllFailedListed
        /\ (call.pc = "else") => (\A i \in 1..Len(call.out.errors) : call.out.errors[i][2].k = "error")

\* a remote action whose action.yml and action.yaml both fail to download
C22_Witness ==
    /\ call.fn = "get_action_data"
    /\ call.pc = "raised"
    /\ call.out.result.s = "IOError"
    /\ Len(call.out.errors) = 2
    /\ call.out.errors[1] = <<WithName(call.args[1], ACTION_YAML_NAMES[1]), PyError("URLError")>>
    /\ call.out.errors[2] = <<WithName(call.args[1], ACTION_YAML_NAMES[2]), PyError("URLError")>>
    /\ call.out.result.args[1] = call.out.errors[2]

-----------------------------------------------------------------------------
(* The download cache over a run.                                          *)

\* no two elements of a list are the same
NoRepeats(s) == \A i, j \in 1..Len(s) : s[i] = s[j] => i = j

\* every download is of a remote file, and no remote file is downloaded twice
OneDownloadEach ==
    /\ NoRepeats(call.out.downloads)
    /\ \A i \in 1..Len(call.out.downloads) : call.out.downloads[i].cls = "RemoteFilePath"

\* the cache holds one entry for a file, and what was returned for a remote
\* file is what the cache holds for it
OneEntryEach ==
    /\ NoRepeats([i \in 1..Len(call.out.cache) |-> call.out.cache[i][1]])
    /\ \A i \in 1..Len(call.out.fetched) :
          call.out.fetched[i][1].cls = "RemoteFilePath" =>
              /\ CacheHas(call.out.cache, call.out.fetched[i][1])
              /\ CacheGet(call.out.cache, call.out.fetched[i][1]) = call.out.fetched[i][2]

\* two returns of get_filepath_data for the same remote file are the same
SameAsFirst ==
    \A i, j \in 1..Len(call.out.fetched) :
        (call.out.fetched[i][1] = call.out.fetched[j][1]
         /\ call.out.fetched[i][1].cls = "RemoteFilePath")
        => call.out.fetched[i][2] = call.out.fetched[j][2]

\* a step of the run keeps every entry of the cache as it is
CacheKept ==
    /\ Len(call'.out.cache) >= Len(call.out.cache)
    /\ \A i \in 1..Len(call.out.cache) : call'.out.cache[i] = call.out.cache[i]

\* C23: over the calls of get_filepath_data of one run, each remote file is
\* downloaded at most once, its cache entry is written once and never changed,
\* and every later call for it returns what the first one returned, a failure
\* included (a failed download is not tried again).
C23_DownloadedOnce ==
    /\ [](call.fn \in {"get_action_data", "get_workflow_data"}
          => (OneDownloadEach /\ OneEntryEach /\ SameAsFirst))
    /\ [][call.fn \in {"get_action_data", "get_workflow_data"} => CacheKept]_vars

\* a remote action.yml whose download failed is asked for a second time, and
\* the failure kept is returned without a second download
C23_Witness ==
    /\ call.fn \in {"get_action_data", "get_workflow_data"}
    /\ \E i, j \in 1..Len(call.out.fetched) :
          /\ i < j
          /\ call.out.fetched[i][1].cls = "RemoteFilePath"
          /\ call.out.fetched[i] = call.out.fetched[j]
          /\ call.out.fetched[i][2] = PyError("URLError")
    /\ Len(call.out.downloads) < Len(call.out.fetched)
    /\ NoRepeats(call.out.downloads)

-----------------------------------------------------------------------------
(* __init__.py: expand_step_includes_script on a step with its keys, and   *)
(* the pass of expand_job_steps that puts its result in new_steps.         *)

\* the name of a script as the value of `includes-script`
ScriptName(script) == Node("str", "", 0, script)

\* v[key] = value: the key stays where it is, a new key goes to the end
SetKey(items, key, value) ==
    IF \E i \in 1..Len(items) : items[i].s = key
    THEN [i \in 1..Len(items) |-> IF items[i].s = key THEN PyItem(key, value) ELSE items[i]]
    ELSE Append(items, PyItem(key, value))

\* `(pathlib.Path('/'+current_filepath.path).parent / script)`, as its parts
ScriptParts(path, script) ==
    IF HasPrefix(script, <<"/">>) THEN PathParts(script)
    ELSE SubSeq(PathParts(path), 1, Len(PathParts(path)) - 1) \o PathParts(script)

\* `str(....resolve())[1:]`
ScriptFile(path, script) == JoinWith(Resolve(<<>>, ScriptParts(path, script)), <<"/">>)

\* the chain of `script.endswith(...)`: the shell, or none
ShellOf(script) ==
    CASE HasSuffix(script, <<".", "p", "y">>) -> <<PyStr("python")>>
      [] HasSuffix(script, <<".", "p", "s", "1">>) -> <<PyStr("pwsh")>>
      [] HasSuffix(script, <<".", "c", "m", "d">>) -> <<PyStr("cmd")>>
      [] HasSuffix(script, <<".", "r", "b">>) -> <<PyStr("ruby {0}")>>
      [] HasSuffix(script, <<".", "p", "l">>) -> <<PyStr("perl {0}")>>
      [] HasSuffix(script, <<".", "c", "m", "a", "k", "e">>) -> <<PyStr("cmake -P {0}")>>
      [] HasSuffix(script, <<".", "s", "h">>) -> <<PyStr("bash")>>
      [] OTHER -> <<>>

\* `if 'shell' not in v:`
ShellAbsent(items) == ~DictHas(PyDict(items), "shell")

\* v after the chain that sets `shell`
WithShell(items, script) ==
    IF ShellAbsent(items) /\ ShellOf(script) # <<>>
    THEN SetKey(items, "shell", ShellOf(script)[1])
    ELSE items

\* v after `v['run'] = script_data` and the chain that sets `shell`
ScriptStep(items, script, script_data) ==
    PyDict(WithShell(SetKey(items, "run", script_data), script))

\* expand_step_includes_script(current_filepath, v) from get_filepath on:
\* script_filepath is the file of the script
ScriptFetched(v, script_filepath, script_data) ==
    IF script_filepath.cls \notin {"LocalFilePath", "RemoteFilePath"}
    THEN PyRaise(script_filepath.cls)
    ELSE IF IsRaise(script_data) THEN script_data
    ELSE ScriptStep(DictPop(v.args, "includes-script"),
                    DictGet(v, "includes-script").args, script_data)

\* the file of the script of step v of current_filepath; `'/'+current_filepath.path`
\* is the sum of a str and the path
ScriptFilepath(current_filepath, v) ==
    IF current_filepath.pathcls # "str" THEN NoFilePath("TypeError")
    ELSE
    get_filepath(current_filepath,
                 <<".", "/">> \o ScriptFile(current_filepath.path,
                                            DictGet(v, "includes-script").args),
                 None)

-----------------------------------------------------------------------------
(* A job of one `includes-script` step, expanded by expand_job_steps.      *)

MaxKeys == 2

Scripts ==
    {<<"a", ".", "p", "y">>, <<"a", ".", "p", "s", "1">>, <<"a", ".", "c", "m", "d">>, <<"a", ".", "r", "b">>, <<"a", ".", "p", "l">>, <<"a", ".", "c", "m", "a", "k", "e">>, <<"a", ".", "s", "h">>, <<"a", ".", "t", "x", "t">>, <<".", ".", "/", "s", "/", "a", ".", "p", "y">>}

\* the files the step is in: the workflow given to main, and an action
\* loaded by get_action_data from the repository or from a remote one
ScriptCurrents ==
    {LocalFilePath(<<"/", "r", "o", "o", "t">>, <<".", "g", "i", "t", "h", "u", "b", "/", "w", "/", "a", "b", "c", ".", "y", "m", "l">>),
     WithName(LocalFilePath(<<"/", "r", "o", "o", "t">>, <<".", "g", "i", "t", "h", "u", "b", "/", "x">>), ACTION_YAML_NAMES[1]),
     WithName(RemoteFilePath(<<"u">>, <<"r">>, <<"v">>, <<"x">>), ACTION_YAML_NAMES[1])}

\* the other keys a step may have, with their values
OtherItems ==
    {PyItem("name", PyStr("n")), PyItem("shell", PyStr("sh")), PyItem("env", PyDict(<<>>))}

\* the steps: the script and up to MaxKeys other keys, in any order
ScriptSteps ==
    { PyDict(items) : items \in
        { s \in UNION { [1..n -> OtherItems \cup { PyItem("includes-script", ScriptName(script)) : script \in Scripts }]
                        : n \in 1..(MaxKeys + 1) } :
            /\ \A i, j \in 1..Len(s) : s[i].s = s[j].s => i = j
            /\ \E i \in 1..Len(s) : s[i].s = "includes-script" } }

ScriptAnswers == {PyStr("script"), PyStr("fails"), PyStr("raises")}

\* the state of the pass: the step and its file, what the fetch gave, and
\* new_steps or what was raised
InitScript ==
    /\ \E current_filepath \in ScriptCurrents, v \in ScriptSteps :
          call = [fn |-> "expand_step_includes_script", args |-> <<current_filepath, v>>,
                  pc |-> "call",
                  out |-> [script_filepath |-> NoFilePath(""), script_data |-> PyNone,
                           new_steps |-> <<>>, raised |-> PyNone]]
    /\ IdleSteps
    /\ IdleInputs
    /\ IdleJobs

\* `new_steps.append(expand_step_includes_script(step_filepath, step_data))`
ScriptPassed(script_filepath, script_data, step) ==
    call' = [call EXCEPT !.pc = IF IsRaise(step) THEN "raised" ELSE "done",
                         !.out.script_filepath = script_filepath,
                         !.out.script_data = IF IsRaise(step) THEN PyNone ELSE script_data,
                         !.out.new_steps = IF IsRaise(step) THEN @ ELSE Append(@, step),
                         !.out.raised = IF IsRaise(step) THEN step ELSE @]

ScriptPassAt(script_filepath, data) ==
    ScriptPassed(script_filepath, data, ScriptFetched(call.args[2], script_filepath, data))

ScriptPass ==
    /\ call.fn = "expand_step_includes_script" /\ call.pc = "call"
    /\ \E answer \in ScriptAnswers :
          ScriptPassAt(ScriptFilepath(call.args[1], call.args[2]),
                       get_filepath_data(<<>>, ScriptFilepath(call.args[1], call.args[2]), answer))
    /\ UNCHANGED <<stepVars, bi, jobVars>>

NextScript == ScriptPass

SpecScript == InitScript /\ [][NextScript]_vars

-----------------------------------------------------------------------------
(* The expansion of `includes-script` steps.                               *)

\* a step one of whose values is an exception
HoldsFailure(step) == \E i \in 1..Len(step.args) : step.args[i].args[1].k = "error"

\* C24: a fetch that fails ends the run with an error, and the failure never
\* becomes part of an emitted step: a pass on an `includes-script` step whose
\* script could not be fetched raises, and no step of new_steps holds a failure.
C24_FetchFailureAborts ==
    call.fn = "expand_step_includes_script" =>
        /\ call.out.script_data.k = "error" => call.pc = "raised"
        /\ \A i \in 1..Len(call.out.new_steps) : ~HoldsFailure(call.out.new_steps[i])

\* the shells by extension
ShellByExtension ==
    {<<<<".", "p", "y">>, "python">>, <<<<".", "s", "h">>, "bash">>, <<<<".", "r", "b">>, "ruby {0}">>, <<<<".", "p", "s", "1">>, "pwsh">>,
     <<<<".", "c", "m", "d">>, "cmd">>, <<<<".", "p", "l">>, "perl {0}">>, <<<<".", "c", "m", "a", "k", "e">>, "cmake -P {0}">>}

\* step r is step v rewritten with the script's content: `run` is the content,
\* a `shell` of v is as it was, a missing one is set from the extension alone,
\* and the other keys are those of v, in their order
Rewritten(v, r, content) ==
    /\ ~DictHas(r, "includes-script")
    /\ DictHas(r, "run") /\ DictGet(r, "run") = content
    /\ DictHas(v, "shell") => (DictHas(r, "shell") /\ DictGet(r, "shell") = DictGet(v, "shell"))
    /\ ~DictHas(v, "shell") =>
          \A e \in ShellByExtension :
              HasSuffix(DictGet(v, "includes-script").args, e[1])
              => (DictHas(r, "shell") /\ DictGet(r, "shell") = PyStr(e[2]))
    /\ (~DictHas(v, "shell")
        /\ \A e \in ShellByExtension : ~HasSuffix(DictGet(v, "includes-script").args, e[1]))
       => ~DictHas(r, "shell")
    /\ SelectSeq(r.args, LAMBDA it : it.s \notin {"run", "shell"})
          = SelectSeq(v.args, LAMBDA it : it.s \notin {"includes-script", "shell"})

\* C25: an `includes-script` step is rewritten to a `run` step whose body is
\* the fetched content of the script; a `shell` it has is left as it is, a
\* missing one is set from the script's extension, and the other keys are left
\* as they were: a pass on such a step whose fetch gave the content has put
\* that step in new_steps.
C25_ScriptStepRewritten ==
    (/\ call.fn = "expand_step_includes_script" /\ call.pc # "call"
     /\ call.out.script_data.k # "error" /\ call.out.raised.s # "OSError")
    => /\ call.pc = "done"
       /\ Len(call.out.new_steps) = 1
       /\ Rewritten(call.args[2], call.out.new_steps[1], call.out.script_data)

-----------------------------------------------------------------------------
(* yaml_map.py: class YamlMap. An object is its fields: the counter __i,   *)
(* _keys (key -> the indexes of its entries), _values (index -> value)     *)
(* and _order (the list of (index, key)).                                  *)

\* YamlMap()
YamlMapNew == [i |-> 0, keys |-> <<>>, values |-> <<>>, order |-> <<>>]

\* a dict with d[k] = v set, and with k deleted
DictSet(d, k, v) == [x \in DOMAIN d \cup {k} |-> IF x = k THEN v ELSE d[x]]
DictDel(d, k) == [x \in DOMAIN d \ {k} |-> d[x]]

\* an exception of the class with the key it names
YamlMapRaise(what, k) == Node("raise", what, 0, <<k>>)

\* __contains__
YamlMapContains(m, k) == k \in DOMAIN m.keys

\* __getitem__: the value or the exception
YamlMapGetitem(m, k) ==
    IF ~YamlMapContains(m, k) THEN YamlMapRaise("KeyError", k)
    ELSE IF Len(m.keys[k]) = 1 THEN m.values[m.keys[k][1]]
    ELSE YamlMapRaise("MultiKeyError", k)

\* an assignment that takes the place of the entries the key has
YamlMapSetitemOver(m, k, v) ==
    [i |-> m.i + 1,
     keys |-> DictSet(m.keys, k, <<m.i + 1>>),
     values |-> DictSet(m.values, m.i + 1, v),
     order |-> Append(SelectSeq(m.order, LAMBDA e : e[2] # k), <<m.i + 1, k>>)]

\* __setitem__: the object after `m[k] = v`
YamlMapSetitem(m, k, v) ==
    [i |-> m.i + 1,
     keys |-> DictSet(m.keys, k, (IF k \in DOMAIN m.keys THEN m.keys[k] ELSE <<>>) \o <<m.i + 1>>),
     values |-> DictSet(m.values, m.i + 1, v),
     order |-> Append(m.order, <<m.i + 1, k>>)]

\* replace, `if k not in self._keys:` passed: the exception, or the object after
YamlMapReplaceAt(m, k, v) ==
    IF Len(m.keys[k]) > 1 THEN YamlMapRaise("MultiKeyError", k)
    ELSE [m EXCEPT !.values = DictSet(@, m.keys[k][1], v)]

\* replace(k, v, allow_missing): the exception, or the object after; a missing
\* key allowed is first set to None
YamlMapReplace(m, k, v, allow_missing) ==
    IF YamlMapContains(m, k) THEN YamlMapReplaceAt(m, k, v)
    ELSE IF ~allow_missing THEN YamlMapRaise("KeyError", k)
    ELSE YamlMapReplaceAt(YamlMapSetitem(m, k, PyNone), k, v)

\* __delitem__: the exception, or the object after `del m[k]`
YamlMapDelitem(m, k) ==
    IF ~YamlMapContains(m, k) THEN YamlMapRaise("KeyError", k)
    ELSE [i |-> m.i,
          keys |-> DictDel(m.keys, k),
          values |-> [x \in DOMAIN m.values \ {m.keys[k][j] : j \in 1..Len(m.keys[k])} |-> m.values[x]],
          order |-> SelectSeq(m.order, LAMBDA e : \A j \in 1..Len(m.keys[k]) : e # <<m.keys[k][j], k>>)]

\* get(k, default): a KeyError, MultiKeyError included, gives the default
YamlMapGet(m, k, default) ==
    IF IsRaise(YamlMapGetitem(m, k)) THEN default ELSE YamlMapGetitem(m, k)

\* list(m.items())
YamlMapItems(m) == [j \in 1..Len(m.order) |-> <<m.order[j][2], m.values[m.order[j][1]]>>]

\* len(m)
YamlMapLen(m) == Len(m.order)

-----------------------------------------------------------------------------
(* A YamlMap under a sequence of operations.                               *)

MaxOps == 4

YamlKeys == {"1", "2"}
YamlValues == {PyInt(1), PyInt(2)}

\* the state: the last operation (its name and arguments), the object before
\* and after it, what it returned or raised, and the number of operations
InitYaml ==
    /\ call = [fn |-> "YamlMap", args |-> <<"__init__">>, pc |-> "run",
               out |-> [m |-> YamlMapNew, was |-> YamlMapNew, ret |-> PyNone, ops |-> 0]]
    /\ IdleSteps
    /\ IdleInputs
    /\ IdleJobs

\* an operation that changes the object, or raises and leaves it
YamlDone(op, after) ==
    call' = [call EXCEPT !.args = op,
                         !.out.was = call.out.m,
                         !.out.m = IF "k" \in DOMAIN after THEN call.out.m ELSE after,
                         !.out.ret = IF "k" \in DOMAIN after THEN after ELSE PyNone,
                         !.out.ops = @ + 1]

\* an operation that reads the object
YamlRead(op, ret) ==
    call' = [call EXCEPT !.args = op, !.out.was = call.out.m, !.out.ret = ret,
                         !.out.ops = @ + 1]

YamlSetitem ==
    /\ call.fn = "YamlMap" /\ call.out.ops < MaxOps
    /\ \E k \in YamlKeys, v \in YamlValues :
          YamlDone(<<"__setitem__", k, v>>, YamlMapSetitem(call.out.m, k, v))
    /\ UNCHANGED <<stepVars, bi, jobVars>>

YamlDelitem ==
    /\ call.fn = "YamlMap" /\ call.out.ops < MaxOps
    /\ \E k \in YamlKeys : YamlDone(<<"__delitem__", k>>, YamlMapDelitem(call.out.m, k))
    /\ UNCHANGED <<stepVars, bi, jobVars>>

YamlReplace ==
    /\ call.fn = "YamlMap" /\ call.out.ops < MaxOps
    /\ \E k \in YamlKeys, v \in YamlValues, allow_missing \in BOOLEAN :
          YamlDone(<<"replace", k, v, allow_missing>>,
                   YamlMapReplace(call.out.m, k, v, allow_missing))
    /\ UNCHANGED <<stepVars, bi, jobVars>>

YamlGetitem ==
    /\ call.fn = "YamlMap" /\ call.out.ops < MaxOps
    /\ \E k \in YamlKeys : YamlRead(<<"__getitem__", k>>, YamlMapGetitem(call.out.m, k))
    /\ UNCHANGED <<stepVars, bi, jobVars>>

YamlGet ==
    /\ call.fn = "YamlMap" /\ call.out.ops < MaxOps
    /\ \E k \in YamlKeys : YamlRead(<<"get", k>>, YamlMapGet(call.out.m, k, PyStr("default")))
    /\ UNCHANGED <<stepVars, bi, jobVars>>

NextYaml ==
    \/ YamlSetitem
    \/ YamlDelitem
    \/ YamlReplace
    \/ YamlGetitem
    \/ YamlGet

SpecYaml == InitYaml /\ [][NextYaml]_vars

-----------------------------------------------------------------------------
(* YamlMap as an insertion-ordered multi-map.                              *)

\* the entries of key k in a list of (key, value)
EntriesOf(items, k) == SelectSeq(items, LAMBDA e : e[1] = k)

\* what the last operation did to the entries, and what it gave
MultiMapStep(op, before, after, ret) ==
    CASE op[1] = "__setitem__" -> after = Append(before, <<op[2], op[3]>>)
      [] op[1] = "__delitem__" ->
            IF EntriesOf(before, op[2]) = <<>> THEN after = before /\ ret.s = "KeyError"
            ELSE after = SelectSeq(before, LAMBDA e : e[1] # op[2]) /\ ret = PyNone
      [] op[1] = "replace" /\ Len(EntriesOf(before, op[2])) = 1 ->
            /\ after = [j \in 1..Len(before) |->
                           IF before[j][1] = op[2] THEN <<op[2], op[3]>> ELSE before[j]]
            /\ ret = PyNone
      [] op[1] = "__getitem__" ->
            /\ after = before
            /\ Len(EntriesOf(before, op[2])) = 1 => ret = EntriesOf(before, op[2])[1][2]
            /\ Len(EntriesOf(before, op[2])) > 1 => ret = YamlMapRaise("MultiKeyError", op[2])
      [] OTHER -> TRUE

\* C27: YamlMap is an insertion-ordered multi-map. After any sequence of
\* assignments, deletions and replace calls items() yields every stored entry in
\* insertion order, repeated keys included: an assignment adds its entry at the
\* end, `del` of a key removes all its entries and keeps the order of the
\* others, replace(k, v) changes the value of a single-entry key where it is;
\* reading a key of one entry returns its value, reading a key of several
\* raises MultiKeyError.
C27_OrderedMultiMap ==
    call.fn = "YamlMap" =>
        /\ MultiMapStep(call.args, YamlMapItems(call.out.was), YamlMapItems(call.out.m),
                        call.out.ret)
        /\ YamlMapLen(call.out.m) = Cardinality(DOMAIN call.out.m.values)

\* `del y['1']` of a map with the entries ('1', 1), ('1', 2), ('2', 1)
C27_Witness ==
    /\ call.fn = "YamlMap"
    /\ call.args = <<"__delitem__", "1">>
    /\ YamlMapItems(call.out.was) = <<<<"1", PyInt(1)>>, <<"1", PyInt(2)>>, <<"2", PyInt(1)>>>>
    /\ YamlMapItems(call.out.m) = <<<<"2", PyInt(1)>>>>

-----------------------------------------------------------------------------
(* __init__.py: the body of the loop of expand_step_includes on conditions *)
(* given by their text; expressions.py: simplify and parse on text.        *)

\* simplify(exp, context) with the text of a str spelled out: an Expression
\* is written out with str() and read again by the tokenizer
simplify_chars(exp, context) ==
    IF exp.k = "chars"
    THEN ValueInContext(tokens_eval(tokenizer_chars(exp.args), context), context)
    ELSE IF IsExpression(exp)
    THEN ValueInContext(tokens_eval(tokenizer_chars(ExpressionStr(exp)), context), context)
    ELSE exp

\* get_if_exp(d) for a step without `if` (<<>>) or with the text of a
\* condition that is not in `${{ }}`: the text is wrapped and parsed
get_if_exp_chars(if) ==
    IF if = <<>> THEN PyTrue
    ELSE simplify_chars(Node("chars", "", 0, Strip(if[1])), EmptyContext)

\* `step_if = exp.AndF(current_if, get_if_exp(step))` and
\* `step_if = exp.simplify(step_if, context)`
StepIfSimplified(current_if, own, context) == simplify_chars(StepAnd(current_if, own), context)

\* the rest of the loop body: what becomes of the step, and the text of the
\* `if` it is given
StepIfPut(step_if) ==
    CASE IsRaise(step_if) -> <<"raised">>
      [] IsExpression(step_if) -> <<"if", ExpressionStr(step_if)>>
      [] InFalseNoneEmpty(step_if) -> <<"dropped">>
      [] ~IsTrue(step_if) -> <<"raised">>
      [] OTHER -> <<"no if">>

-----------------------------------------------------------------------------
(* An include of one step: the conditions of the including step and of the *)
(* step of the action.                                                     *)

MaxTerms == 2

IfAtoms == {<<"a">>, <<"b">>}
IfOps == {<<" ", "&", "&", " ">>, <<" ", "|", "|", " ">>, <<" ", "=", "=", " ">>}

\* the conditions of n operands
RECURSIVE IfTexts(_)
IfTexts(n) ==
    IF n = 1 THEN IfAtoms \cup { <<"!">> \o t : t \in IfAtoms }
    ELSE { t \o op \o a : t \in IfTexts(n - 1), op \in IfOps, a \in IfAtoms }

\* the `if` of the step of the action, and of the including step
StepIfTexts == {<<>>} \cup { <<t>> : t \in UNION { IfTexts(n) : n \in 1..MaxTerms } }
IncludeIfTexts ==
    {<<>>, <<<<"x">>>>, <<<<"x", " ", "|", "|", " ", "a">>>>, <<<<"!", "x">>>>}

\* the context of an action without inputs
NoInputsContext == IncludeContext([name |-> "docA"], PyDict(<<>>))

InitIf ==
    /\ \E incl \in IncludeIfTexts, own \in StepIfTexts :
          call = [fn |-> "expand_step_includes", args |-> <<incl, own>>, pc |-> "call",
                  out |-> [current_if |-> PyNone, own |-> PyNone, built |-> PyNone,
                           step_if |-> PyNone, put |-> <<>>]]
    /\ IdleSteps
    /\ IdleInputs
    /\ IdleJobs

IfPassed(current_if, own) ==
    call' = [call EXCEPT !.pc = "done",
                         !.out.current_if = current_if,
                         !.out.own = own,
                         !.out.built = StepAnd(current_if, own),
                         !.out.step_if = StepIfSimplified(current_if, own, NoInputsContext),
                         !.out.put = StepIfPut(StepIfSimplified(current_if, own, NoInputsContext))]

IfPass ==
    /\ call.fn = "expand_step_includes" /\ call.pc = "call"
    /\ IfPassed(get_if_exp_chars(call.args[1]), get_if_exp_chars(call.args[2]))
    /\ UNCHANGED <<stepVars, bi, jobVars>>

NextIf == IfPass

SpecIf == InitIf /\ [][NextIf]_vars

-----------------------------------------------------------------------------
(* The condition of an included step and the conjunction it stands for.    *)

\* the tokens of the text of a condition: names, operators and parentheses
RECURSIVE IfTokens(_)
IfTokens(cs) ==
    IF cs = <<>> THEN <<>>
    ELSE IF Head(cs) = " " THEN IfTokens(Tail(cs))
    ELSE IF Len(cs) >= 2 /\ SubSeq(cs, 1, 2) \in {<<"&", "&">>, <<"|", "|">>, <<"=", "=">>, <<"!", "=">>}
    THEN <<SubSeq(cs, 1, 2)>> \o IfTokens(SubSeq(cs, 3, Len(cs)))
    ELSE IF Head(cs) \in {"!", "(", ")"} THEN <<<<Head(cs)>>>> \o IfTokens(Tail(cs))
    ELSE <<SubSeq(cs, 1, MatchIAt(cs, 1))>> \o IfTokens(SubSeq(cs, MatchIAt(cs, 1) + 1, Len(cs)))

\* the places of the operators ops of toks that are in no parentheses
OpenBefore(toks, i) ==
    Cardinality({ j \in 1..(i - 1) : toks[j] = <<"(">> })
    - Cardinality({ j \in 1..(i - 1) : toks[j] = <<")">> })
TopPlaces(toks, ops) == { i \in 1..Len(toks) : toks[i] \in ops /\ OpenBefore(toks, i) = 0 }
LastPlace(places) == CHOOSE i \in places : \A j \in places : j <= i

\* the truth value of a condition under an assignment of truth values to its
\* names, with the grouping of the expression language: `||` binds least,
\* then `&&`, then `==` and `!=`, then `!`
RECURSIVE TruthOf(_, _)
TruthAt(toks, val, i) ==
    CASE toks[i] = <<"|", "|">> ->
            TruthOf(SubSeq(toks, 1, i - 1), val) \/ TruthOf(SubSeq(toks, i + 1, Len(toks)), val)
      [] toks[i] = <<"&", "&">> ->
            TruthOf(SubSeq(toks, 1, i - 1), val) /\ TruthOf(SubSeq(toks, i + 1, Len(toks)), val)
      [] toks[i] = <<"=", "=">> ->
            TruthOf(SubSeq(toks, 1, i - 1), val) = TruthOf(SubSeq(toks, i + 1, Len(toks)), val)
      [] OTHER ->
            TruthOf(SubSeq(toks, 1, i - 1), val) # TruthOf(SubSeq(toks, i + 1, Len(toks)), val)

TruthOf(toks, val) ==
    CASE TopPlaces(toks, {<<"|", "|">>}) # {} ->
            TruthAt(toks, val, LastPlace(TopPlaces(toks, {<<"|", "|">>})))
      [] TopPlaces(toks, {<<"&", "&">>}) # {} ->
            TruthAt(toks, val, LastPlace(TopPlaces(toks, {<<"&", "&">>})))
      [] TopPlaces(toks, {<<"=", "=">>, <<"!", "=">>}) # {} ->
            TruthAt(toks, val, LastPlace(TopPlaces(toks, {<<"=", "=">>, <<"!", "=">>})))
      [] Head(toks) = <<"!">> -> ~TruthOf(Tail(toks), val)
      [] Head(toks) = <<"(">> -> TruthOf(SubSeq(toks, 2, Len(toks) - 1), val)
      [] toks = <<<<"t", "r", "u", "e">>>> -> TRUE
      [] toks = <<<<"f", "a", "l", "s", "e">>>> -> FALSE
      [] OTHER -> val[toks[1]]

\* the truth value of the `if` of a step: a step without `if` always runs
TruthOfIf(if, val) == IF if = <<>> THEN TRUE ELSE TruthOf(IfTokens(if[1]), val)

IfNames == {<<"a">>, <<"b">>, <<"x">>}

\* what became of the step agrees with the conjunction of the two conditions
\* under the assignment val
AgreesUnder(val) ==
    /\ call.out.put[1] = "if" =>
          (TruthOf(IfTokens(call.out.put[2]), val)
           = (TruthOfIf(call.args[1], val) /\ TruthOfIf(call.args[2], val)))
    /\ call.out.put[1] = "no if" => (TruthOfIf(call.args[1], val) /\ TruthOfIf(call.args[2], val))
    /\ call.out.put[1] = "dropped" => ~(TruthOfIf(call.args[1], val) /\ TruthOfIf(call.args[2], val))

\* C28: the `if` emitted for a step that came from an include has, under every
\* assignment of truth values to the names left and with the grouping of the
\* expression language, the truth value of (the including step's `if`) AND
\* (the step's own `if`); a step is dropped only if that conjunction is false
\* under every assignment; and writing the conjunction out and reading it
\* again, as simplify does, does not change its grouping.
C28_EmittedIfIsConjunction ==
    (call.fn = "expand_step_includes" /\ call.pc = "done") =>
        /\ call.out.put[1] # "raised"
        /\ \A val \in [IfNames -> BOOLEAN] : AgreesUnder(val)
        /\ IsExpression(call.out.built) => call.out.step_if = call.out.built

-----------------------------------------------------------------------------
(* The names of the including step's condition.                            *)

\* the expression e is, or holds as an operand, the name or lookup var
RECURSIVE Mentions(_, _)
Mentions(e, var) ==
    \/ e = var
    \/ IsFunction(e) /\ \E i \in 1..Len(e.args) : Mentions(e.args[i], var)

\* C29: a name used in the including step's own `if` is never bound from the
\* included action's context: when that condition is one unresolved name or
\* lookup, it stays symbolic in the condition of every step the include gives.
C29_IncludingIfStaysSymbolic ==
    (last.called /\ last.reached /\ last.raised = PyNone /\ IsVar(last.current_if)) =>
        \A i \in 1..Len(last.out) :
            /\ last.out[i][2].if # <<>>
            /\ Mentions(last.out[i][2].if[1], last.current_if)

-----------------------------------------------------------------------------
(* expand_job_steps on actions that include themselves: C includes C from  *)
(* its second step, D includes E and E includes D. C declares the input    *)
(* `flag` with the default true. The loop has no end of its own here, so   *)
(* the passes stop once MaxRounds steps are in new_steps.                  *)

MaxRounds == 3

\* the `if` and the `with` of the step of C that includes C
SelfIfs == { <<>>, <<PyFalse>>, <<Text(<<Value("w")>>)>>, <<Text(<<InputsFlag>>)>> }
SelfWiths == { <<>>, <<PyItem("flag", PyFalse)>>, <<PyItem("zz", PyInt(1))>> }

DocC(cC, wC) ==
    [name |-> "docC",
     inputs |-> <<PyItem("flag", PyDict(<<PyItem("default", PyTrue)>>))>>,
     steps |-> << Step(31, "run", <<>>, "echo c1", <<>>),
                  Step(32, "includes", cC, "C", wC) >>]

DocD ==
    [name |-> "docD", inputs |-> <<>>,
     steps |-> << Step(41, "includes", <<>>, "E", <<>>) >>]

DocE(cE) ==
    [name |-> "docE", inputs |-> <<>>,
     steps |-> << Step(51, "run", <<>>, "echo e1", <<>>),
                  Step(52, "includes", cE, "D", <<>>) >>]

CycleTopSteps(cI) ==
    { Step(1, "run", <<>>, "echo t", <<>>),
      Step(5, "includes", cI, "C", <<>>),
      Step(6, "includes", cI, "D", <<>>) }

InitCycle ==
    /\ \E cI \in {<<>>, <<Text(<<Value("v")>>)>>}, cC \in SelfIfs, wC \in SelfWiths,
          cE \in {<<>>, <<PyFalse>>} :
          /\ docs = [n \in {"C", "D", "E"} |->
                        IF n = "C" THEN DocC(cC, wC) ELSE IF n = "D" THEN DocD ELSE DocE(cE)]
          /\ \E n \in 1..MaxSteps : \E l \in [1..n -> CycleTopSteps(cI)] :
                job0 = l /\ \E i \in 1..n : l[i].type = "includes"
    /\ steps = [i \in 1..Len(job0) |-> <<"top", job0[i]>>]
    /\ new_steps = <<>>
    /\ pc = "loop"
    /\ err = ""
    /\ last = NoCall
    /\ IdleInputs
    /\ IdleCall
    /\ IdleJobs

CycleRun == Len(new_steps) < MaxRounds /\ StepRun

CycleIncludes == Len(new_steps) < MaxRounds /\ StepIncludes

CycleReturn == StepsReturn

NextCycle ==
    \/ CycleRun
    \/ CycleIncludes
    \/ CycleReturn

SpecCycle == InitCycle /\ [][NextCycle]_vars

-----------------------------------------------------------------------------
(* Includes that come back.                                                *)

\* the include steps among the steps expand_step_includes returned
IncludesOf(r) ==
    IF r.raised # PyNone THEN {}
    ELSE { r.out[i][2] : i \in { j \in 1..Len(r.out) : r.out[j][2].type = "includes" } }

\* the include steps a pass on the include step s puts in the queue
PassIncludes(s) == IncludesOf(expand_step_includes(docs, "top", s))

\* a pass on s, or the pass after it, puts s itself in the queue again
Recurs(s) ==
    /\ s.type = "includes"
    /\ \E t \in PassIncludes(s) : t = s \/ s \in PassIncludes(t)

\* s comes back, or leads within two passes to a step that does
LeadsToCycle(s) ==
    /\ s.type = "includes"
    /\ \/ Recurs(s)
       \/ \E t \in PassIncludes(s) : Recurs(t) \/ \E u \in PassIncludes(t) : Recurs(u)

\* the loop runs and the first include step of its queue is one that comes back
CycleInQueue ==
    /\ pc = "loop"
    /\ \E i \in 1..Len(steps) :
        /\ LeadsToCycle(steps[i][2])
        /\ \A j \in 1..(i - 1) : steps[j][2].type # "includes"

-----------------------------------------------------------------------------
(* Termination. expand_job_steps and expand_workflow_jobs are `while`      *)
(* loops of one thread: a pass that can be made is made, which is weak     *)
(* fairness of the passes of the loops. The runs are those of the step     *)
(* queue or those of the job queue, over the acyclic documents of Spec and *)
(* SpecJobs (A includes B, W2 includes W1), the names M and WM being files *)
(* whose fetch fails. What a pass on an include gives depends on the       *)
(* directive and on the documents only, which no pass changes: `call`      *)
(* holds the table of these results, made when the run starts, and the     *)
(* number of the passes on an include made so far.                         *)

\* the entries of the step queue q that include
IncludeEntries(q) == { q[i] : i \in { j \in 1..Len(q) : q[j][2].type = "includes" } }

\* the entries of the job queue q that include, and those that do not
JobIncludeEntries(q) == { q[i] : i \in { j \in 1..Len(q) : q[j][3].includes # "" } }

JobStepsEntries(q) == { q[i] : i \in { j \in 1..Len(q) : q[j][3].includes = "" } }

\* the pass of `while jobs` on the including job e when nothing else is queued
JobPassOf(ws, e) == JobPass(ws, <<>>, e[1], e[2], e[3])

\* the jobs a pass on an including job puts in the queue
JobPassOut(r) == IF r.raised # PyNone THEN <<>> ELSE r.queue

\* the include entries the passes on the entries of S put in the queue
StepOuts(ds, S) ==
    UNION { IncludeEntries(expand_step_includes(ds, e[1], e[2]).out) : e \in S }

JobOuts(ws, S) == UNION { JobIncludeEntries(JobPassOut(JobPassOf(ws, e))) : e \in S }

\* every include entry that can come to the head of the queue
RECURSIVE StepKeys(_, _)
StepKeysWith(ds, S, N) == IF N \subseteq S THEN S ELSE StepKeys(ds, S \cup N)

StepKeys(ds, S) == StepKeysWith(ds, S, StepOuts(ds, S))

RECURSIVE JobKeys(_, _)
JobKeysWith(ws, S, N) == IF N \subseteq S THEN S ELSE JobKeys(ws, S \cup N)

JobKeys(ws, S) == JobKeysWith(ws, S, JobOuts(ws, S))

\* the results of expand_step_includes for the job whose steps are queued in q
StepPasses(ds, q) ==
    [e \in StepKeys(ds, IncludeEntries(q)) |-> expand_step_includes(ds, e[1], e[2])]

\* the results of the passes on the including jobs of the workflow queued in q
JobPasses(ws, q) == [e \in JobKeys(ws, JobIncludeEntries(q)) |-> JobPassOf(ws, e)]

\* the results of expand_job_steps for the jobs, queued or included, with steps
JobStepsPasses(ds, ws, q) ==
    [e \in JobStepsEntries(q)
           \cup UNION { JobStepsEntries(JobPassOut(JobPassOf(ws, k))) :
                           k \in JobKeys(ws, JobIncludeEntries(q)) }
       |-> expand_job_steps(ds, e[1], e[3])]

\* the jobs returned by a pass go before the jobs q that wait
PutBefore(r, q) ==
    IF r.raised # PyNone /\ r.included = <<>> THEN r ELSE [r EXCEPT !.queue = @ \o q]

\* the jobs of the runs: no `needs`
PlainJobs == { j \in TopJobs : j.needs = <<>> }

PlainMappings ==
    UNION { { l \in [1..n -> JobNames \X PlainJobs] :
                \A i, j \in 1..n : i # j => l[i][1] # l[j][1] } : n \in 1..MaxJobs }

\* expand_job_steps on a list of steps
InitTerminatesSteps ==
    /\ \E cI \in {<<>>, <<Text(<<Value("v")>>)>>}, w \in {<<>>, <<PyItem("zz", PyInt(1))>>},
          cA1 \in {<<>>, <<PyFalse>>}, cA2 \in {<<>>, <<Text(<<Value("w")>>)>>} :
          /\ docs = [n \in {"A", "B"} |-> IF n = "A" THEN DocA(cA1, cA2) ELSE DocB(<<>>)]
          /\ \E n \in 1..MaxSteps : \E l \in [1..n -> TopSteps(cI, w)] : job0 = l
    /\ steps = [i \in 1..Len(job0) |-> <<"top", job0[i]>>]
    /\ new_steps = <<>>
    /\ pc = "loop"
    /\ err = ""
    /\ last = NoCall
    /\ IdleInputs
    /\ IdleJobs
    /\ call = [fn |-> "expand_job_steps", pc |-> "loop", out |-> 0,
               args |-> <<StepPasses(docs, steps), <<>>, <<>>>>]

\* expand_workflow_jobs on a workflow
InitTerminatesJobs ==
    /\ \E top \in PlainMappings :
          wf = [docs |-> Workflows(<<>>, PyStr("A")), jobs |-> top]
    /\ jobs = [i \in 1..Len(wf.jobs) |-> <<"top", wf.jobs[i][1], wf.jobs[i][2]>>]
    /\ new_jobs = <<>>
    /\ jpc = "loop"
    /\ result = <<>>
    /\ lastj = NoJobPass
    /\ docs = [n \in {"A", "B"} |-> IF n = "A" THEN DocA(<<>>, <<>>) ELSE DocB(<<>>)]
    /\ steps = <<>> /\ new_steps = <<>> /\ pc = "idle" /\ err = ""
    /\ job0 = <<>> /\ last = NoCall
    /\ IdleInputs
    /\ call = [fn |-> "expand_workflow_jobs", pc |-> "loop", out |-> 0,
               args |-> <<<<>>, JobPasses(wf.docs, jobs), JobStepsPasses(docs, wf.docs, jobs)>>]

InitTerminates == InitTerminatesSteps \/ InitTerminatesJobs

\* st == 'includes', the result of expand_step_includes taken from the table
TerminatesStepIncludes ==
    /\ pc = "loop" /\ steps # <<>> /\ HeadType = "includes"
    /\ StepIncludesWith(call.args[1][Head(steps)])
    /\ call' = [call EXCEPT !.out = @ + 1]
    /\ UNCHANGED <<docs, new_steps, job0, bi, jobVars>>

\* 'includes' not in job_data, the result of expand_job_steps taken from the table
TerminatesJobSteps ==
    /\ jpc = "loop" /\ jobs # <<>> /\ Head(jobs)[3].includes = ""
    /\ JobStepsWith(call.args[3][Head(jobs)])
    /\ UNCHANGED <<docs, steps, new_steps, pc, job0, last, bi, call, wf, result, lastj>>

\* 'includes' in job_data, the result of the pass taken from the table
TerminatesJobInclude ==
    /\ jpc = "loop" /\ jobs # <<>> /\ Head(jobs)[3].includes # ""
    /\ JobIncludeWith(PutBefore(call.args[2][Head(jobs)], Tail(jobs)))
    /\ call' = [call EXCEPT !.out = @ + 1]
    /\ UNCHANGED <<docs, steps, new_steps, pc, job0, last, bi, wf, new_jobs, result>>

\* the passes of `while steps` and of `while jobs`
PassTerminates ==
    \/ StepRun
    \/ StepUses
    \/ StepIncludesScript
    \/ TerminatesStepIncludes
    \/ TerminatesJobSteps
    \/ TerminatesJobInclude

NextTerminates ==
    \/ PassTerminates
    \/ StepsReturn
    \/ JobsReturn

SpecTerminates == InitTerminates /\ [][NextTerminates]_vars /\ WF_vars(PassTerminates)


\* the names a document's steps include
IncludedBy(ds, n) ==
    { ds[n].steps[i].arg : i \in { j \in 1..Len(ds[n].steps) : ds[n].steps[j].type = "includes" } }

\* the workflows a workflow's jobs include
JobsIncludedBy(ws, n) ==
    { ws[n].jobs[i][2].includes : i \in { j \in 1..Len(ws[n].jobs) : ws[n].jobs[j][2].includes # "" } }

\* no document includes itself, directly or through another document
Acyclic ==
    /\ \A n \in DOMAIN docs :
          /\ n \notin IncludedBy(docs, n)
          /\ \A k \in IncludedBy(docs, n) \cap DOMAIN docs : n \notin IncludedBy(docs, k)
    /\ wf # <<>> =>
          \A n \in DOMAIN wf.docs :
              /\ n \notin JobsIncludedBy(wf.docs, n)
              /\ \A k \in JobsIncludedBy(wf.docs, n) \cap DOMAIN wf.docs :
                    n \notin JobsIncludedBy(wf.docs, k)

\* the include directives of the flattened tree of the step queue q: the
\* include steps of q and, for each, those of the steps its pass returns
RECURSIVE IncludesIn(_)
IncludesIn(q) ==
    IF q = <<>> THEN 0
    ELSE IncludesIn(Tail(q))
         + (IF Head(q)[2].type # "includes" THEN 0
            ELSE 1 + IncludesIn(expand_step_includes(docs, Head(q)[1], Head(q)[2]).out))

\* the same for the job queue q
RECURSIVE JobIncludesIn(_)
JobIncludesIn(q) ==
    IF q = <<>> THEN 0
    ELSE JobIncludesIn(Tail(q))
         + (IF Head(q)[3].includes = "" THEN 0
            ELSE 1 + JobIncludesIn(JobPassOut(JobPassOf(wf.docs, Head(q)))))

\* the queues the loops started with
FirstSteps == [i \in 1..Len(job0) |-> <<"top", job0[i]>>]

FirstJobs == [i \in 1..Len(wf.jobs) |-> <<"top", wf.jobs[i][1], wf.jobs[i][2]>>]

\* the pass the loop is about to make gets from the table what the code computes
TableIsThePass ==
    /\ (pc = "loop" /\ steps # <<>> /\ HeadType = "includes") =>
          call.args[1][Head(steps)] = expand_step_includes(docs, Head(steps)[1], Head(steps)[2])
    /\ (jpc = "loop" /\ jobs # <<>> /\ Head(jobs)[3].includes = "") =>
          call.args[3][Head(jobs)] = expand_job_steps(docs, Head(jobs)[1], Head(jobs)[3])
    /\ (jpc = "loop" /\ jobs # <<>> /\ Head(jobs)[3].includes # "") =>
          PutBefore(call.args[2][Head(jobs)], Tail(jobs))
             = JobPass(wf.docs, Tail(jobs), Head(jobs)[1], Head(jobs)[2], Head(jobs)[3])

\* `while steps` has ended: by an exception of a pass, or with its queue empty
StepsEnded == pc = "error" \/ (pc \in {"loop", "done"} /\ steps = <<>>)

\* `while jobs` has ended
JobsEnded == jpc = "error" \/ (jpc \in {"loop", "done"} /\ jobs = <<>>)

\* the passes made on an include and the include directives of the tree still
\* to expand are the include directives of the flattened tree
OncePerOccurrence ==
    /\ pc # "idle" => call.out + IncludesIn(steps) = IncludesIn(FirstSteps)
    /\ jpc # "idle" => call.out + JobIncludesIn(jobs) = JobIncludesIn(FirstJobs)

=============================================================================
